---- MODULE Spec2Model ----
(***************************************************************************)
(* WundraDB: the B+ tree index (storage/bptree.rs), the write-ahead log    *)
(* (txn/wal.rs), the SQL engine (sql/engine.rs) and the Database facade    *)
(* (lib.rs), as state machines.                                            *)
(*                                                                         *)
(* Strings are sequences of byte values (ASCII codes), compared the way    *)
(* Rust compares str: bytewise, lexicographically.  Vec indices in the     *)
(* source are 0-based; the operators below keep the 0-based index of the   *)
(* source and add 1 where a TLA+ sequence is accessed.                     *)
(***************************************************************************)
EXTENDS Integers, Sequences, FiniteSets, TLC

\* ------------------------------------------------------------------------
\* Bounds of the model
\* ------------------------------------------------------------------------

\* number of BPlusTree::insert calls explored on the stand-alone tree
MaxTreeOps == 7

\* number of WriteAheadLog::append calls explored on the stand-alone log
MaxWalOps == 3

\* number of WAL entries the statements of a behaviour may ask to append
MaxUuids == 4

\* number of statements of a behaviour whose append meets an I/O fault
MaxFaults == 1

\* number of Database::new calls of a behaviour
MaxStarts == 2

\* number of lines the server reads from its connections
MaxRequests == 4

\* the largest value of a Term (u64::MAX in the source; the width is scaled,
\* the arithmetic kept): the terms of requests range over 0..MaxTerm
MaxTerm == 3

\* handler calls on a Raft node (each call reads the clock once)
MaxCalls == 5

\* requests a client sends on its connection
MaxSent == 4

\* ------------------------------------------------------------------------
\* Strings and vectors
\* ------------------------------------------------------------------------

Min(a, b) == IF a < b THEN a ELSE b

\* a < b in the bytewise lexicographic order of str
StrLt(a, b) ==
    \E i \in 1..(Min(Len(a), Len(b)) + 1) :
        /\ \A j \in 1..(i - 1) : a[j] = b[j]
        /\ \/ i > Len(a) /\ i <= Len(b)
           \/ i <= Len(a) /\ i <= Len(b) /\ a[i] < b[i]

\* str::starts_with
starts_with(key, prefix) ==
    /\ Len(prefix) <= Len(key)
    /\ \A j \in 1..Len(prefix) : key[j] = prefix[j]

\* a set of strings as an ascending sequence
RECURSIVE SortKeys(_)
SortKeys(S) ==
    IF S = {} THEN <<>>
    ELSE LET m == CHOOSE x \in S : \A y \in S \ {x} : StrLt(x, y)
         IN  <<m>> \o SortKeys(S \ {m})

\* Vec::insert(index, x), index 0-based
VecInsert(s, index, x) ==
    SubSeq(s, 1, index) \o <<x>> \o SubSeq(s, index + 1, Len(s))

\* &v[from..], from 0-based
VecFrom(s, from) == SubSeq(s, from + 1, Len(s))

\* Vec::truncate(n)
VecTruncate(s, n) == SubSeq(s, 1, Min(n, Len(s)))

\* BTreeMap::insert / HashMap::insert
MapInsert(m, k, v) == [x \in (DOMAIN m) \cup {k} |-> IF x = k THEN v ELSE m[x]]

EmptyMap == [x \in {} |-> 0]

\* ------------------------------------------------------------------------
\* B+ tree (storage/bptree.rs)
\* ------------------------------------------------------------------------

\* split threshold of a node.  The source has 256; the model keeps the
\* algorithm and scales the threshold so that splits at every level are
\* reached by a handful of inserts (mid = n / 2 leaves both halves non-empty
\* for every n >= 3, as for 256).
NODE_SIZE == 3

\* Option<NodeId>::None; node ids start at 1
None == 0

Node_new(id, is_leaf) ==
    [id |-> id, is_leaf |-> is_leaf, keys |-> <<>>, values |-> <<>>,
     children |-> <<>>, next_leaf |-> None, prev_leaf |-> None]

\* is_full that lets a node reach the threshold
is_full_Above(node) == Len(node.keys) > NODE_SIZE

is_full(node) == Len(node.keys) >= NODE_SIZE

\* binary_search(..).unwrap_or_else(|i| i): the position of the key when it
\* is present, else its insertion point; on strictly sorted keys both are the
\* number of keys smaller than the searched key.
find_key_index(node, key) ==
    Cardinality({i \in 1..Len(node.keys) : StrLt(node.keys[i], key)})

BPlusTree_new ==
    [root |-> None, nodes |-> EmptyMap, next_node_id |-> 1,
     leaf_head |-> None, operation_count |-> 0]

\* Result<Option<NodeId>> of the insert helpers, with the tree they leave
Ret(t, ret) == [t |-> t, ret |-> ret, err |-> FALSE]
RetErr(t) == [t |-> t, ret |-> None, err |-> TRUE]

split_leaf(t, node_id) ==
    LET node == t.nodes[node_id]
        mid == Len(node.keys) \div 2
        new_node_id == t.next_node_id
        new_keys == VecFrom(node.keys, mid)
        new_values == VecFrom(node.values, mid)
        new_node == [Node_new(new_node_id, TRUE) EXCEPT
                        !.keys = new_keys, !.values = new_values,
                        !.next_leaf = node.next_leaf, !.prev_leaf = node_id]
        old_node == [node EXCEPT !.keys = VecTruncate(node.keys, mid),
                                 !.values = VecTruncate(node.values, mid),
                                 !.next_leaf = new_node_id]
        nodes1 == [t.nodes EXCEPT ![node_id] = old_node]
        next_id == new_node.next_leaf
        nodes2 == IF next_id # None /\ next_id \in DOMAIN nodes1
                  THEN [nodes1 EXCEPT ![next_id].prev_leaf = new_node_id]
                  ELSE nodes1
        promote_key == new_node.keys[1]
        nodes3 == MapInsert(nodes2, new_node_id, new_node)
        t3 == [t EXCEPT !.nodes = nodes3, !.next_node_id = new_node_id + 1]
    IN  IF node_id = t.root
        THEN LET new_root_id == t3.next_node_id
                 new_root == [Node_new(new_root_id, FALSE) EXCEPT
                                 !.keys = <<promote_key>>,
                                 !.children = <<node_id, new_node_id>>]
             IN  Ret([t3 EXCEPT !.nodes = MapInsert(nodes3, new_root_id, new_root),
                                !.next_node_id = new_root_id + 1],
                     new_root_id)
        ELSE Ret(t3, new_node_id)

split_internal(t, node_id) ==
    LET node == t.nodes[node_id]
        mid == Len(node.keys) \div 2
        new_node_id == t.next_node_id
        new_node == [Node_new(new_node_id, FALSE) EXCEPT
                        !.keys = VecFrom(node.keys, mid + 1),
                        !.children = VecFrom(node.children, mid + 1)]
        promote_key == node.keys[mid + 1]
        old_node == [node EXCEPT !.keys = VecTruncate(node.keys, mid),
                                 !.children = VecTruncate(node.children, mid + 1)]
        nodes1 == MapInsert([t.nodes EXCEPT ![node_id] = old_node],
                            new_node_id, new_node)
        t1 == [t EXCEPT !.nodes = nodes1, !.next_node_id = new_node_id + 1]
    IN  IF node_id = t.root
        THEN LET new_root_id == t1.next_node_id
                 new_root == [Node_new(new_root_id, FALSE) EXCEPT
                                 !.keys = <<promote_key>>,
                                 !.children = <<node_id, new_node_id>>]
             IN  Ret([t1 EXCEPT !.nodes = MapInsert(nodes1, new_root_id, new_root),
                                !.next_node_id = new_root_id + 1],
                     new_root_id)
        ELSE Ret(t1, new_node_id)

insert_child(t, parent_id, child_id) ==
    LET child == t.nodes[child_id]
        promote_key == child.keys[1]
        parent == t.nodes[parent_id]
        index == find_key_index(parent, promote_key)
        parent2 == [parent EXCEPT
                       !.keys = VecInsert(parent.keys, index, promote_key),
                       !.children = VecInsert(parent.children, index + 1, child_id)]
        t2 == [t EXCEPT !.nodes[parent_id] = parent2]
    IN  IF is_full(parent2) THEN split_internal(t2, parent_id) ELSE Ret(t2, None)

insert_into_leaf(t, node_id, key, value) ==
    LET node == t.nodes[node_id]
        index == find_key_index(node, key)
    IN  IF index < Len(node.keys) /\ node.keys[index + 1] = key
        THEN Ret([t EXCEPT !.nodes[node_id].values[index + 1] = value], None)
        ELSE LET node2 == [node EXCEPT
                              !.keys = VecInsert(node.keys, index, key),
                              !.values = VecInsert(node.values, index, value)]
                 t2 == [t EXCEPT !.nodes[node_id] = node2]
             IN  IF is_full(node2) THEN split_leaf(t2, node_id) ELSE Ret(t2, None)

RECURSIVE insert_recursive(_, _, _, _)

insert_into_internal(t, node_id, key, value) ==
    LET node == t.nodes[node_id]
        index == find_key_index(node, key)
    IN  IF index < Len(node.children)
        THEN LET r == insert_recursive(t, node.children[index + 1], key, value)
             IN  IF r.err THEN r
                 ELSE IF r.ret # None THEN insert_child(r.t, node_id, r.ret)
                 ELSE Ret(r.t, None)
        ELSE RetErr(t)

insert_recursive(t, node_id, key, value) ==
    IF t.nodes[node_id].is_leaf
    THEN insert_into_leaf(t, node_id, key, value)
    ELSE insert_into_internal(t, node_id, key, value)

\* BPlusTree::insert: [t: the tree afterwards, err: whether it returned Err]
insert(t, key, value) ==
    IF t.root = None
    THEN LET root_id == t.next_node_id
             root == [Node_new(root_id, TRUE) EXCEPT
                         !.keys = <<key>>, !.values = <<value>>]
         IN  [t |-> [t EXCEPT !.nodes = MapInsert(t.nodes, root_id, root),
                              !.next_node_id = root_id + 1,
                              !.root = root_id,
                              !.leaf_head = root_id,
                              !.operation_count = t.operation_count + 1],
              err |-> FALSE]
    ELSE LET r == insert_recursive(t, t.root, key, value)
         IN  IF r.err THEN [t |-> t, err |-> TRUE]
             ELSE [t |-> [r.t EXCEPT
                             !.root = IF r.ret # None THEN r.ret ELSE r.t.root,
                             !.operation_count = r.t.operation_count + 1],
                   err |-> FALSE]

\* Option<Value>: <<>> is None, <<v>> is Some(v)
RECURSIVE get_recursive(_, _, _)
get_recursive(t, node_id, key) ==
    LET node == t.nodes[node_id]
        index == find_key_index(node, key)
    IN  IF node.is_leaf
        THEN IF index < Len(node.keys) /\ node.keys[index + 1] = key
             THEN <<node.values[index + 1]>>
             ELSE <<>>
        ELSE IF index < Len(node.children)
             THEN get_recursive(t, node.children[index + 1], key)
             ELSE <<>>

get(t, key) == IF t.root # None THEN get_recursive(t, t.root, key) ELSE <<>>

RECURSIVE find_leaf_recursive(_, _, _)
find_leaf_recursive(t, node_id, key) ==
    LET node == t.nodes[node_id]
        index == find_key_index(node, key)
    IN  IF node.is_leaf THEN node_id
        ELSE IF index < Len(node.children)
             THEN find_leaf_recursive(t, node.children[index + 1], key)
             ELSE None

find_leaf_for_prefix(t, prefix) ==
    IF t.root # None THEN find_leaf_recursive(t, t.root, prefix) ELSE None

\* the `for key in &node.keys` loop of scan_prefix from key number i (1-based)
\* on: [results, stop], stop when the loop returned from scan_prefix
RECURSIVE ScanKeys(_, _, _, _)
ScanKeys(keys, i, prefix, results) ==
    IF i > Len(keys) THEN [results |-> results, stop |-> FALSE]
    ELSE IF starts_with(keys[i], prefix)
         THEN ScanKeys(keys, i + 1, prefix, Append(results, keys[i]))
         ELSE IF StrLt(prefix, keys[i])
              THEN [results |-> results, stop |-> TRUE]
              ELSE ScanKeys(keys, i + 1, prefix, results)

\* the `while let Some(node_id) = current` loop of scan_prefix
RECURSIVE ScanChain(_, _, _, _)
ScanChain(t, current, prefix, results) ==
    IF current = None THEN results
    ELSE LET node == t.nodes[current]
             r == ScanKeys(node.keys, 1, prefix, results)
         IN  IF r.stop THEN r.results
             ELSE ScanChain(t, node.next_leaf, prefix, r.results)

scan_prefix(t, prefix) ==
    ScanChain(t, find_leaf_for_prefix(t, prefix), prefix, <<>>)

\* ------------------------------------------------------------------------
\* Snapshot of the tree (save_to_disk / load_from_disk)
\* ------------------------------------------------------------------------

\* a file of the data directory: absent, or present with its content
NoFile == [exists |-> FALSE, data |-> <<>>]
FileOf(data) == [exists |-> TRUE, data |-> data]

RECURSIVE SortedIds(_)
SortedIds(S) ==
    IF S = {} THEN <<>>
    ELSE LET m == CHOOSE x \in S : \A y \in S : x <= y
         IN  <<m>> \o SortedIds(S \ {m})

\* serde encoding of Option<NodeId>: the variant, then the payload of Some
EncOpt(x) == IF x = None THEN <<0>> ELSE <<1, x>>
DecOpt(e) == IF e[1] = 0 THEN None ELSE e[2]

\* a snapshot writer that loses the link to the next leaf
EncNode_NoNextLeaf(n) ==
    <<n.id, n.is_leaf, n.keys, n.values, n.children,
      EncOpt(None), EncOpt(n.prev_leaf)>>

\* derive(Serialize) for Node: the fields in declaration order
EncNode(n) ==
    <<n.id, n.is_leaf, n.keys, n.values, n.children,
      EncOpt(n.next_leaf), EncOpt(n.prev_leaf)>>

DecNode(e) ==
    [id |-> e[1], is_leaf |-> e[2], keys |-> e[3], values |-> e[4],
     children |-> e[5], next_leaf |-> DecOpt(e[6]), prev_leaf |-> DecOpt(e[7])]

\* derive(Serialize) for BPlusTree: the fields in declaration order, the
\* BTreeMap as its entries in ascending key order
EncTree(t) ==
    LET ids == SortedIds(DOMAIN t.nodes)
    IN  <<EncOpt(t.root),
          [i \in 1..Len(ids) |-> <<ids[i], EncNode(t.nodes[ids[i]])>>],
          t.next_node_id,
          EncOpt(t.leaf_head),
          t.operation_count>>

DecTree(e) ==
    LET ents == e[2]
        ids == {ents[i][1] : i \in 1..Len(ents)}
    IN  [root |-> DecOpt(e[1]),
         nodes |-> [id \in ids |->
                      DecNode(ents[CHOOSE i \in 1..Len(ents) : ents[i][1] = id
                                  /\ \A j \in (i + 1)..Len(ents) : ents[j][1] # id][2])],
         next_node_id |-> e[3],
         leaf_head |-> DecOpt(e[4]),
         operation_count |-> e[5]]

\* save_to_disk: the file the call leaves at the path (File::create truncates)
save_to_disk(t) == FileOf(EncTree(t))

\* load_from_disk: [t: the tree afterwards, err]; on any error self is untouched
load_from_disk(t, file) ==
    IF ~file.exists THEN [t |-> t, err |-> TRUE]
    ELSE [t |-> DecTree(file.data), err |-> FALSE]

\* ------------------------------------------------------------------------
\* Rows, schemas and WAL entries (sql/engine.rs, txn/wal.rs)
\* ------------------------------------------------------------------------

\* SqlDataType, by variant index: 0 Integer, 1 Varchar(a), 2 Decimal(a, b),
\* 3 Boolean, 4 Timestamp
SqlDataType(tag, a, b) == [tag |-> tag, a |-> a, b |-> b]

\* SqlValue, by variant index: 0 Integer(int), 1 Varchar(str), 2 Decimal(int),
\* 3 Boolean(int), 4 Timestamp(int), 5 Null
SqlValue(tag, int, str) == [tag |-> tag, int |-> int, str |-> str]
SqlInteger(i) == SqlValue(0, i, <<>>)
SqlVarchar(str) == SqlValue(1, 0, str)
SqlNull == SqlValue(5, 0, <<>>)

Column(name, data_type, nullable, primary_key) ==
    [name |-> name, data_type |-> data_type, nullable |-> nullable,
     primary_key |-> primary_key]

TableSchema(name, columns) == [name |-> name, columns |-> columns]
NoSchema == TableSchema(<<>>, <<>>)

\* WalOperation, by variant index: 0 CreateTable(schema),
\* 1 Insert { table, key, row }; the fields of the other variant are blank
OpCreateTable(schema) ==
    [tag |-> 0, schema |-> schema, table |-> <<>>, key |-> <<>>, row |-> EmptyMap]
OpInsert(table, key, row) ==
    [tag |-> 1, schema |-> NoSchema, table |-> table, key |-> key, row |-> row]

WalEntry(id, timestamp, operation) ==
    [id |-> id, timestamp |-> timestamp, operation |-> operation]

\* ------------------------------------------------------------------------
\* bincode: a value as a sequence of cells, and back.  A fixed-width field
\* is one cell; a String or Vec is its length followed by its elements.
\* ------------------------------------------------------------------------

RECURSIVE Concat(_)
Concat(ss) == IF ss = <<>> THEN <<>> ELSE Head(ss) \o Concat(Tail(ss))

EncStr(str) == <<Len(str)>> \o str
EncBool(b) == IF b THEN <<1>> ELSE <<0>>

EncDataType(d) ==
    CASE d.tag = 1 -> <<1, d.a>>
      [] d.tag = 2 -> <<2, d.a, d.b>>
      [] OTHER -> <<d.tag>>

EncColumn(c) ==
    EncStr(c.name) \o EncDataType(c.data_type) \o EncBool(c.nullable)
        \o EncBool(c.primary_key)

EncSchema(sch) ==
    EncStr(sch.name) \o <<Len(sch.columns)>>
        \o Concat([i \in 1..Len(sch.columns) |-> EncColumn(sch.columns[i])])

EncSqlValue(v) ==
    CASE v.tag = 1 -> <<1>> \o EncStr(v.str)
      [] v.tag = 5 -> <<5>>
      [] OTHER -> <<v.tag, v.int>>

\* a HashMap is written entry by entry; the model writes the entries in
\* ascending order of the column name
EncRow(row) ==
    LET cols == SortKeys(DOMAIN row)
    IN  <<Len(cols)>>
            \o Concat([i \in 1..Len(cols) |->
                          EncStr(cols[i]) \o EncSqlValue(row[cols[i]])])

EncOperation(op) ==
    IF op.tag = 0 THEN <<0>> \o EncSchema(op.schema)
    ELSE <<1>> \o EncStr(op.table) \o EncStr(op.key) \o EncRow(op.row)

\* bincode::serialize(entry)
EncEntry(e) == <<e.id, e.timestamp>> \o EncOperation(e.operation)

\* bincode::serialize(row), the value stored in the index
serialize_row(row) == EncRow(row)

\* decoders: [ok, val, pos], pos the 1-based position after what was read
Fail == [ok |-> FALSE, val |-> <<>>, pos |-> 0]
Ok(val, pos) == [ok |-> TRUE, val |-> val, pos |-> pos]
Has(b, p, n) == p >= 1 /\ n >= 0 /\ p + n - 1 <= Len(b)

DecCell(b, p) == IF Has(b, p, 1) THEN Ok(b[p], p + 1) ELSE Fail

DecStr(b, p) ==
    IF Has(b, p, 1) /\ Has(b, p + 1, b[p])
    THEN Ok(SubSeq(b, p + 1, p + b[p]), p + 1 + b[p])
    ELSE Fail

DecBool(b, p) ==
    IF Has(b, p, 1) /\ b[p] \in {0, 1} THEN Ok(b[p] = 1, p + 1) ELSE Fail

DecDataType(b, p) ==
    IF ~Has(b, p, 1) THEN Fail
    ELSE CASE b[p] = 1 -> IF Has(b, p, 2)
                          THEN Ok(SqlDataType(1, b[p + 1], 0), p + 2) ELSE Fail
           [] b[p] = 2 -> IF Has(b, p, 3)
                          THEN Ok(SqlDataType(2, b[p + 1], b[p + 2]), p + 3) ELSE Fail
           [] b[p] \in {0, 3, 4} -> Ok(SqlDataType(b[p], 0, 0), p + 1)
           [] OTHER -> Fail

\* the next field of a struct is read when the one before it was read
Then(r, F(_)) == IF r.ok THEN F(r) ELSE Fail

DecColumn(b, p) ==
    Then(DecStr(b, p), LAMBDA n :
    Then(DecDataType(b, n.pos), LAMBDA d :
    Then(DecBool(b, d.pos), LAMBDA nu :
    Then(DecBool(b, nu.pos), LAMBDA pk :
    Ok(Column(n.val, d.val, nu.val, pk.val), pk.pos)))))

RECURSIVE DecColumns(_, _, _, _)
DecColumns(b, p, count, acc) ==
    IF count <= 0 THEN Ok(acc, p)
    ELSE Then(DecColumn(b, p), LAMBDA c :
             DecColumns(b, c.pos, count - 1, Append(acc, c.val)))

DecSchema(b, p) ==
    Then(DecStr(b, p), LAMBDA n :
    Then(DecCell(b, n.pos), LAMBDA len :
    Then(DecColumns(b, len.pos, len.val, <<>>), LAMBDA cs :
    Ok(TableSchema(n.val, cs.val), cs.pos))))

DecSqlValue(b, p) ==
    IF ~Has(b, p, 1) THEN Fail
    ELSE CASE b[p] = 1 -> Then(DecStr(b, p + 1), LAMBDA str :
                               Ok(SqlVarchar(str.val), str.pos))
           [] b[p] = 5 -> Ok(SqlNull, p + 1)
           [] b[p] \in {0, 2, 3, 4} ->
                  IF Has(b, p, 2) THEN Ok(SqlValue(b[p], b[p + 1], <<>>), p + 2) ELSE Fail
           [] OTHER -> Fail

RECURSIVE DecRowEntries(_, _, _, _)
DecRowEntries(b, p, count, acc) ==
    IF count <= 0 THEN Ok(acc, p)
    ELSE Then(DecStr(b, p), LAMBDA n :
         Then(DecSqlValue(b, n.pos), LAMBDA v :
             DecRowEntries(b, v.pos, count - 1, MapInsert(acc, n.val, v.val))))

DecRow(b, p) ==
    Then(DecCell(b, p), LAMBDA len :
        DecRowEntries(b, len.pos, len.val, EmptyMap))

\* bincode::deserialize::<Row>(data), the value read back from the index
deserialize_row(data) == DecRow(data, 1)

DecOperation(b, p) ==
    IF ~Has(b, p, 1) THEN Fail
    ELSE CASE b[p] = 0 -> Then(DecSchema(b, p + 1), LAMBDA sch :
                               Ok(OpCreateTable(sch.val), sch.pos))
           [] b[p] = 1 -> Then(DecStr(b, p + 1), LAMBDA t :
                          Then(DecStr(b, t.pos), LAMBDA k :
                          Then(DecRow(b, k.pos), LAMBDA r :
                              Ok(OpInsert(t.val, k.val, r.val), r.pos))))
           [] OTHER -> Fail

\* bincode::deserialize::<WalEntry>(buf); bytes after the entry are ignored
DecEntry(b) ==
    IF ~Has(b, 1, 2) THEN Fail
    ELSE Then(DecOperation(b, 3), LAMBDA op :
             Ok(WalEntry(b[1], b[2], op.val), op.pos))

\* ------------------------------------------------------------------------
\* Write-ahead log (txn/wal.rs)
\* ------------------------------------------------------------------------

\* the WAL file: content, and how much of it an fsync has made durable
WalFile(exists, data, synced) == [exists |-> exists, data |-> data, synced |-> synced]
NoWalFile == WalFile(FALSE, <<>>, 0)

\* a size prefix written most significant byte first
to_be_bytes(n) ==
    <<(n \div 16777216) % 256, (n \div 65536) % 256, (n \div 256) % 256, n % 256>>

\* (len as u32).to_le_bytes(): the four low bytes of the length (the
\* reduction of the fourth byte modulo 256 is the truncation to 32 bits)
to_le_bytes(n) ==
    <<n % 256, (n \div 256) % 256, (n \div 65536) % 256, (n \div 16777216) % 256>>

\* u32::from_le_bytes
from_le_bytes(c) == c[1] + 256 * c[2] + 65536 * c[3] + 16777216 * c[4]

\* what append writes for an entry: the size prefix, then the entry
Frame(entry) == to_le_bytes(Len(EncEntry(entry))) \o EncEntry(entry)

\* a WriteAheadLog handle is its in-memory mirror; the path is fixed
\* WriteAheadLog::new: [wal, file]; the file is created when it is missing
WriteAheadLog_new(file) ==
    [wal |-> [entries |-> <<>>],
     file |-> IF file.exists THEN file ELSE WalFile(TRUE, <<>>, 0)]

\* the faults an append can meet: none; the open fails; the write of the
\* size prefix fails part-way; the write of the entry fails part-way; the
\* fsync fails
AppendFaults == {"none", "open", "len", "payload", "sync"}

\* the cells of a frame that reached the file before fault f
Written(frame, f) ==
    CASE f = "open" -> <<>>
      [] f = "len" -> SubSeq(frame, 1, 2)
      [] f = "payload" -> SubSeq(frame, 1, 4 + (Len(frame) - 4) \div 2)
      [] OTHER -> frame

\* an append that returns before the fsync
append_NoSync(wal, file, entry, f) ==
    IF f = "none"
    THEN [wal |-> [wal EXCEPT !.entries = Append(wal.entries, entry)],
          file |-> WalFile(TRUE, file.data \o Frame(entry), file.synced),
          err |-> FALSE]
    ELSE [wal |-> wal,
          file |-> IF f = "open" THEN file
                   ELSE WalFile(TRUE, file.data \o Written(Frame(entry), f), file.synced),
          err |-> TRUE]

\* WriteAheadLog::append: [wal, file, err]
append(wal, file, entry, f) ==
    IF f = "none"
    THEN LET data == file.data \o Frame(entry)
         IN  [wal |-> [wal EXCEPT !.entries = Append(wal.entries, entry)],
              file |-> WalFile(TRUE, data, Len(data)),
              err |-> FALSE]
    ELSE [wal |-> wal,
          file |-> IF f = "open" THEN file
                   ELSE WalFile(TRUE, file.data \o Written(Frame(entry), f), file.synced),
          err |-> TRUE]

\* the read loop of replay from position p (1-based): [ok, entries]
RECURSIVE ReplayLoop(_, _, _)

\* one pass of the loop, the entry deserialized
ReplayDecoded(data, p, entries, size, e) ==
    IF ~e.ok THEN [ok |-> FALSE, entries |-> <<>>]
    ELSE ReplayLoop(data, p + 4 + size, Append(entries, e.val))

\* a pass that ends the loop cleanly when the file ends inside the payload
ReplayEntry_EofClean(data, p, entries, size) ==
    IF ~Has(data, p + 4, size) THEN [ok |-> TRUE, entries |-> entries]
    ELSE ReplayDecoded(data, p, entries, size,
                       DecEntry(SubSeq(data, p + 4, p + 3 + size)))

\* one pass of the loop, the size prefix read
ReplayEntry(data, p, entries, size) ==
    IF ~Has(data, p + 4, size) THEN [ok |-> FALSE, entries |-> <<>>]
    ELSE ReplayDecoded(data, p, entries, size,
                       DecEntry(SubSeq(data, p + 4, p + 3 + size)))

ReplayLoop(data, p, entries) ==
    IF ~Has(data, p, 4) THEN [ok |-> TRUE, entries |-> entries]
    ELSE ReplayEntry(data, p, entries, from_le_bytes(SubSeq(data, p, p + 3)))

\* replay once the loop has ended with r
ReplayDone(wal, r) ==
    IF r.ok
    THEN [wal |-> [wal EXCEPT !.entries = r.entries], ok |-> TRUE, entries |-> r.entries]
    ELSE [wal |-> wal, ok |-> FALSE, entries |-> <<>>]

\* WriteAheadLog::replay: [wal, ok, entries]
replay(wal, file) ==
    IF ~file.exists \/ Len(file.data) = 0
    THEN [wal |-> wal, ok |-> TRUE, entries |-> <<>>]
    ELSE ReplayDone(wal, ReplayLoop(file.data, 1, <<>>))

\* WriteAheadLog::sync: [file, err]; the open fails when the file is missing
sync(file) ==
    IF ~file.exists THEN [file |-> file, err |-> TRUE]
    ELSE [file |-> [file EXCEPT !.synced = Len(file.data)], err |-> FALSE]

\* a truncate that clears the mirror and leaves the file as it is
truncate_KeepFile(wal, file) ==
    IF ~file.exists THEN [wal |-> wal, file |-> file, err |-> TRUE]
    ELSE [wal |-> [wal EXCEPT !.entries = <<>>], file |-> file, err |-> FALSE]

\* WriteAheadLog::truncate: [wal, file, err]
truncate(wal, file) ==
    IF ~file.exists THEN [wal |-> wal, file |-> file, err |-> TRUE]
    ELSE [wal |-> [wal EXCEPT !.entries = <<>>], file |-> WalFile(TRUE, <<>>, 0),
          err |-> FALSE]

\* WriteAheadLog::checkpoint: [file, err]
checkpoint(file) == sync(file)

\* ------------------------------------------------------------------------
\* SQL engine (sql/engine.rs)
\* ------------------------------------------------------------------------

\* the texts of the engine, as byte strings; of an error text that ends
\* with a rendering of the offending value, the fixed part
TxtColon == <<58>>
TxtTab == <<9>>
TxtNewline == <<10>>
TxtTableQuote == <<84, 97, 98, 108, 101, 32, 39>>
TxtCreated == <<39, 32, 99, 114, 101, 97, 116, 101, 100, 32, 115, 117, 99, 99, 101, 115, 115, 102, 117, 108, 108, 121>>
TxtNotExist == <<39, 32, 100, 111, 101, 115, 32, 110, 111, 116, 32, 101, 120, 105, 115, 116>>
TxtRowsInserted == <<32, 114, 111, 119, 40, 115, 41, 32, 105, 110, 115, 101, 114, 116, 101, 100>>
TxtTooMany == <<84, 111, 111, 32, 109, 97, 110, 121, 32, 118, 97, 108, 117, 101, 115, 32, 112, 114, 111, 118, 105, 100, 101, 100>>
TxtUnsupportedValue == <<85, 110, 115, 117, 112, 112, 111, 114, 116, 101, 100, 32, 118, 97, 108, 117, 101, 32, 116, 121, 112, 101>>
TxtUnsupportedType == <<85, 110, 115, 117, 112, 112, 111, 114, 116, 101, 100, 32, 100, 97, 116, 97, 32, 116, 121, 112, 101>>
TxtUnsupportedStmt == <<85, 110, 115, 117, 112, 112, 111, 114, 116, 101, 100, 32, 115, 116, 97, 116, 101, 109, 101, 110, 116, 32, 116, 121, 112, 101>>
TxtParseError == <<80, 97, 114, 115, 101, 32, 101, 114, 114, 111, 114>>
TxtNoStatement == <<78, 111, 32, 115, 116, 97, 116, 101, 109, 101, 110, 116, 32, 116, 111, 32, 101, 120, 101, 99, 117, 116, 101>>
TxtInvalidChild == <<73, 110, 118, 97, 108, 105, 100, 32, 99, 104, 105, 108, 100, 32, 105, 110, 100, 101, 120>>
TxtIoError == <<105, 111, 32, 101, 114, 114, 111, 114>>
TxtDecodeError == <<100, 101, 99, 111, 100, 101, 32, 101, 114, 114, 111, 114>>
TxtNullUpper == <<78, 85, 76, 76>>
TxtNullLower == <<110, 117, 108, 108>>
TxtTrue == <<116, 114, 117, 101>>
TxtFalse == <<102, 97, 108, 115, 101>>
TxtRowsFooter == <<32, 114, 111, 119, 115, 41>>
TxtParen == <<40>>
TxtDash == <<45>>

\* i64::to_string
RECURSIVE Digits(_)
Digits(n) == IF n < 10 THEN <<48 + n>> ELSE Digits(n \div 10) \o <<48 + (n % 10)>>
IntToString(i) == IF i < 0 THEN <<45>> \o Digits(0 - i) ELSE Digits(i)

\* str::parse::<i64>: [ok, val]; an optional sign, then one digit or more
RECURSIVE ParseDigits(_, _, _)
ParseDigits(str, i, acc) ==
    IF i > Len(str) THEN [ok |-> TRUE, val |-> acc]
    ELSE IF str[i] < 48 \/ str[i] > 57 THEN [ok |-> FALSE, val |-> 0]
    ELSE ParseDigits(str, i + 1, 10 * acc + (str[i] - 48))

Negated(r) == [ok |-> r.ok, val |-> 0 - r.val]

ParseInt(str) ==
    IF Len(str) = 0 THEN [ok |-> FALSE, val |-> 0]
    ELSE IF str[1] \in {43, 45}
         THEN IF Len(str) = 1 THEN [ok |-> FALSE, val |-> 0]
              ELSE IF str[1] = 45 THEN Negated(ParseDigits(str, 2, 0))
              ELSE ParseDigits(str, 2, 0)
         ELSE ParseDigits(str, 1, 0)

\* [T]::join(sep)
RECURSIVE Join(_, _)
Join(ss, sep) ==
    IF ss = <<>> THEN <<>>
    ELSE IF Len(ss) = 1 THEN ss[1]
    ELSE ss[1] \o sep \o Join(Tail(ss), sep)

\* str::repeat(n)
RECURSIVE Repeat(_, _)
Repeat(str, n) == IF n <= 0 THEN <<>> ELSE str \o Repeat(str, n - 1)

\* the text form of a fresh Uuid: no text a client writes as a key value
UuidText(u) == <<117, 45>> \o IntToString(u)

\* sqlparser literals (ast::Value), by kind: 0 Number(text), 1
\* SingleQuotedString(text), 3 Boolean(text = "1" for true), 5 Null, 9 any
\* literal the engine does not support
Literal(kind, text) == [kind |-> kind, text |-> text]

\* SqlEngine: the index, the WAL handle and the schema catalog it owns
SqlEngine_new(storage, w) == [storage |-> storage, wal |-> w, schemas |-> EmptyMap]

\* Result<String> of a statement, with the engine and the WAL file it
\* leaves and the number of fresh uuids it drew
Res(eng, file, ok, text, uuids) ==
    [eng |-> eng, file |-> file, ok |-> ok, text |-> text, uuids |-> uuids]

\* convert_data_type; the parsed type is given by the variant index of
\* SqlDataType it maps to, 9 for a type the engine does not support
convert_data_type(dt) ==
    IF dt.tag \in {0, 1, 2, 3, 4} THEN Ok(dt, 0) ELSE Fail

\* the `for col in columns` loop of execute_create_table: [ok, val]
RECURSIVE ConvertColumns(_, _, _)
ConvertColumns(coldefs, i, acc) ==
    IF i > Len(coldefs) THEN Ok(acc, 0)
    ELSE Then(convert_data_type(coldefs[i].data_type), LAMBDA d :
             ConvertColumns(coldefs, i + 1,
                 Append(acc, Column(coldefs[i].name, d.val, coldefs[i].nullable,
                                    coldefs[i].primary_key))))

\* execute_create_table after the WAL append a
CreateAppended(eng, name, schema, a) ==
    IF a.err THEN Res(eng, a.file, FALSE, TxtIoError, 1)
    ELSE Res([eng EXCEPT !.wal = a.wal, !.schemas = MapInsert(eng.schemas, name, schema)],
             a.file, TRUE, TxtTableQuote \o name \o TxtCreated, 1)

\* execute_create_table with the columns converted
CreateConverted(eng, file, name, cs, uuid, f) ==
    IF ~cs.ok THEN Res(eng, file, FALSE, TxtUnsupportedType, 0)
    ELSE CreateAppended(eng, name, TableSchema(name, cs.val),
             append(eng.wal, file,
                    WalEntry(uuid, uuid, OpCreateTable(TableSchema(name, cs.val))), f))

\* execute_create_table; uuid is the fresh id of the WAL entry, f the fault
\* the append meets
execute_create_table(eng, file, name, coldefs, uuid, f) ==
    CreateConverted(eng, file, name, ConvertColumns(coldefs, 1, <<>>), uuid, f)

\* convert_value_to_sql_value: [ok, val]
ConvertNumber(r) == IF r.ok THEN Ok(SqlInteger(r.val), 0) ELSE Fail

convert_value_to_sql_value(lit) ==
    CASE lit.kind = 0 -> ConvertNumber(ParseInt(lit.text))
      [] lit.kind = 1 -> Ok(SqlVarchar(lit.text), 0)
      [] lit.kind = 3 -> Ok(SqlValue(3, IF lit.text = <<49>> THEN 1 ELSE 0, <<>>), 0)
      [] lit.kind = 5 -> Ok(SqlNull, 0)
      [] OTHER -> Fail

sql_value_to_string(v) ==
    CASE v.tag = 0 -> IntToString(v.int)
      [] v.tag = 1 -> v.str
      [] v.tag = 3 -> IF v.int = 1 THEN TxtTrue ELSE TxtFalse
      [] v.tag = 5 -> TxtNullLower
      [] OTHER -> IntToString(v.int)

\* the primary-key columns of the schema that have a value in the row
KeyColumns(row, schema) ==
    {i \in 1..Len(schema.columns) :
        schema.columns[i].primary_key /\ schema.columns[i].name \in DOMAIN row}

FirstOf(S) == CHOOSE i \in S : \A j \in S : i <= j

\* generate_row_key: [key, uuids]; uuid is the fresh one of the fallback
generate_row_key(table_name, row, schema, uuid) ==
    IF KeyColumns(row, schema) # {}
    THEN [key |-> table_name \o TxtColon
                    \o sql_value_to_string(
                           row[schema.columns[FirstOf(KeyColumns(row, schema))].name]),
          uuids |-> 0]
    ELSE [key |-> table_name \o TxtColon \o UuidText(uuid), uuids |-> 1]

\* the `for (i, value) in value_row` loop of execute_insert: [ok, val, pos],
\* pos = 1 when the row had too many values
RECURSIVE BuildRow(_, _, _, _)

BuildRowConverted(column_names, value_row, i, row, v) ==
    IF ~v.ok THEN Fail
    ELSE BuildRow(column_names, value_row, i + 1,
                  MapInsert(row, column_names[i], v.val))

BuildRow(column_names, value_row, i, row) ==
    IF i > Len(value_row) THEN Ok(row, 0)
    ELSE IF i > Len(column_names) THEN [ok |-> FALSE, val |-> <<>>, pos |-> 1]
    ELSE BuildRowConverted(column_names, value_row, i, row,
                           convert_value_to_sql_value(value_row[i]))

\* the `for value_row in values` loop of execute_insert, from tuple i on.
\* st: [eng, file, uuids, n], the engine, the WAL file, the uuids drawn and
\* the rows inserted so far; cx: [schema, table, cols, tuples, uuid, at, f],
\* the statement, the first fresh uuid, and the fault f met by the append
\* of tuple number `at`
RECURSIVE InsertLoop(_, _, _)

InsertStored(st, cx, i, a, ins) ==
    IF ins.err
    THEN Res([st.eng EXCEPT !.wal = a.wal], a.file, FALSE, TxtInvalidChild, st.uuids)
    ELSE InsertLoop([eng |-> [st.eng EXCEPT !.wal = a.wal, !.storage = ins.t],
                     file |-> a.file, uuids |-> st.uuids, n |-> st.n + 1],
                    cx, i + 1)

\* InsertAppended without the `?` on wal.append: the row is stored whatever
\* the append returned
InsertAppended_StoreAnyway(st, cx, i, key, row, a) ==
    InsertStored(st, cx, i, a, insert(st.eng.storage, key, serialize_row(row)))

InsertAppended(st, cx, i, key, row, a) ==
    IF a.err THEN Res(st.eng, a.file, FALSE, TxtIoError, st.uuids)
    ELSE InsertStored(st, cx, i, a, insert(st.eng.storage, key, serialize_row(row)))

InsertKeyed(st, cx, i, row, k) ==
    InsertAppended([st EXCEPT !.uuids = st.uuids + k.uuids + 1], cx, i, k.key, row,
        append(st.eng.wal, st.file,
               WalEntry(cx.uuid + st.uuids + k.uuids, cx.uuid + st.uuids + k.uuids,
                        OpInsert(cx.table, k.key, row)),
               IF i = cx.at THEN cx.f ELSE "none"))

InsertBuilt(st, cx, i, b) ==
    IF ~b.ok
    THEN Res(st.eng, st.file, FALSE,
             IF b.pos = 1 THEN TxtTooMany ELSE TxtUnsupportedValue, st.uuids)
    ELSE InsertKeyed(st, cx, i, b.val,
                     generate_row_key(cx.table, b.val, cx.schema, cx.uuid + st.uuids))

InsertLoop(st, cx, i) ==
    IF i > Len(cx.tuples)
    THEN Res(st.eng, st.file, TRUE, IntToString(st.n) \o TxtRowsInserted, st.uuids)
    ELSE InsertBuilt(st, cx, i, BuildRow(cx.cols, cx.tuples[i], 1, EmptyMap))

\* execute_insert with a schema of no columns in place of the error for a
\* table the catalog does not hold
execute_insert_NoLookup(eng, file, table_name, column_names, tuples, uuid, at, f) ==
    InsertLoop([eng |-> eng, file |-> file, uuids |-> 0, n |-> 0],
               [schema |-> IF table_name \in DOMAIN eng.schemas
                           THEN eng.schemas[table_name]
                           ELSE TableSchema(table_name, <<>>),
                table |-> table_name, cols |-> column_names, tuples |-> tuples,
                uuid |-> uuid, at |-> at, f |-> f],
               1)

\* execute_insert; `at` is the tuple whose append meets fault f
execute_insert(eng, file, table_name, column_names, tuples, uuid, at, f) ==
    IF table_name \notin DOMAIN eng.schemas
    THEN Res(eng, file, FALSE, TxtTableQuote \o table_name \o TxtNotExist, 0)
    ELSE InsertLoop([eng |-> eng, file |-> file, uuids |-> 0, n |-> 0],
                    [schema |-> eng.schemas[table_name], table |-> table_name,
                     cols |-> column_names, tuples |-> tuples, uuid |-> uuid,
                     at |-> at, f |-> f],
                    1)

\* the `for key in all_keys` loop of execute_select: [ok, val]
RECURSIVE SelectRows(_, _, _, _)

SelectDecoded(storage, keys, i, rows, d) ==
    IF ~d.ok THEN Fail ELSE SelectRows(storage, keys, i + 1, Append(rows, d.val))

SelectFetched(storage, keys, i, rows, data) ==
    IF data = <<>> THEN SelectRows(storage, keys, i + 1, rows)
    ELSE SelectDecoded(storage, keys, i, rows, deserialize_row(data[1]))

SelectRows(storage, keys, i, rows) ==
    IF i > Len(keys) THEN Ok(rows, 0)
    ELSE SelectFetched(storage, keys, i, rows, get(storage, keys[i]))

\* one data line of format_select_results
RowLine(row, columns) ==
    Join([i \in 1..Len(columns) |->
             IF columns[i] \in DOMAIN row THEN sql_value_to_string(row[columns[i]])
             ELSE TxtNullUpper],
         TxtTab) \o TxtNewline

\* format_select_results for the projection `*`
format_select_results(rows, schema) ==
    Join([i \in 1..Len(schema.columns) |-> schema.columns[i].name], TxtTab)
        \o TxtNewline
        \o Repeat(TxtDash, Len(schema.columns) * 10) \o TxtNewline
        \o Concat([i \in 1..Len(rows) |->
                      RowLine(rows[i],
                              [j \in 1..Len(schema.columns) |-> schema.columns[j].name])])
        \o TxtParen \o IntToString(Len(rows)) \o TxtRowsFooter \o TxtNewline

\* execute_select with the rows read; limit is <<>> or <<n>>
SelectRead(eng, file, table_name, limit, r) ==
    IF ~r.ok THEN Res(eng, file, FALSE, TxtDecodeError, 0)
    ELSE Res(eng, file, TRUE,
             format_select_results(
                 IF limit = <<>> THEN r.val ELSE VecTruncate(r.val, limit[1]),
                 eng.schemas[table_name]),
             0)

\* execute_select for SELECT * FROM table_name [LIMIT n]
execute_select(eng, file, table_name, limit) ==
    IF table_name \notin DOMAIN eng.schemas
    THEN Res(eng, file, FALSE, TxtTableQuote \o table_name \o TxtNotExist, 0)
    ELSE SelectRead(eng, file, table_name, limit,
             SelectRows(eng.storage,
                        scan_prefix(eng.storage, table_name \o TxtColon), 1, <<>>))

\* a parsed statement.  kind: "create" | "insert" | "select", and for what
\* execute answers without running a statement: "malformed" (the parser
\* fails), "empty" (no statement in the input), "other" (another statement)
Stmt(kind, table, coldefs, cols, tuples, limit) ==
    [kind |-> kind, table |-> table, coldefs |-> coldefs, cols |-> cols,
     tuples |-> tuples, limit |-> limit]

\* SqlEngine::execute
execute(eng, file, stmt, uuid, at, f) ==
    CASE stmt.kind = "create" ->
             execute_create_table(eng, file, stmt.table, stmt.coldefs, uuid, f)
      [] stmt.kind = "insert" ->
             execute_insert(eng, file, stmt.table, stmt.cols, stmt.tuples, uuid, at, f)
      [] stmt.kind = "select" ->
             execute_select(eng, file, stmt.table, stmt.limit)
      [] stmt.kind = "malformed" -> Res(eng, file, FALSE, TxtParseError, 0)
      [] stmt.kind = "empty" -> Res(eng, file, TRUE, TxtNoStatement, 0)
      [] OTHER -> Res(eng, file, FALSE, TxtUnsupportedStmt, 0)

\* ------------------------------------------------------------------------
\* Database facade (lib.rs)
\* ------------------------------------------------------------------------

\* BPlusTree::apply_wal_entry (its error is logged and dropped by the caller)
apply_wal_entry(t, entry) ==
    IF entry.operation.tag = 1
    THEN insert(t, entry.operation.key, serialize_row(entry.operation.row)).t
    ELSE t

\* the `for entry in entries` loop of Database::new
RECURSIVE ApplyEntries(_, _, _)
ApplyEntries(t, entries, i) ==
    IF i > Len(entries) THEN t
    ELSE ApplyEntries(apply_wal_entry(t, entries[i]), entries, i + 1)

Database(engine, storage, w) ==
    [up |-> TRUE, engine |-> engine, storage |-> storage, wal |-> w]

\* no Database: the process is not running, or Database::new returned Err
NoDatabase ==
    [up |-> FALSE, engine |-> SqlEngine_new(BPlusTree_new, [entries |-> <<>>]),
     storage |-> BPlusTree_new, wal |-> [entries |-> <<>>]]

\* Database::new once the WAL is replayed (r) and applied to a new tree
DatabaseLoaded(r, storage) ==
    Database(SqlEngine_new(storage, r.wal), storage, r.wal)

DatabaseReplayed(h, r, snapshot) ==
    IF ~r.ok THEN [db |-> NoDatabase, file |-> h.file]
    ELSE [db |-> DatabaseLoaded(r,
                     load_from_disk(ApplyEntries(BPlusTree_new, r.entries, 1),
                                    snapshot).t),
          file |-> h.file]

DatabaseOpened(h, snapshot) == DatabaseReplayed(h, replay(h.wal, h.file), snapshot)

\* Database::new on a directory holding the WAL file `file` and the
\* snapshot file `snapshot`: [db, file]
Database_new(file, snapshot) == DatabaseOpened(WriteAheadLog_new(file), snapshot)

\* Database::execute_sql
execute_sql(db, file, stmt, uuid, at, f) == execute(db.engine, file, stmt, uuid, at, f)

\* Database::shutdown: [file, snapshot, err]: the WAL file of the data
\* directory and the file at "data/storage.db" afterwards; dirOk tells
\* whether a directory "data" exists under the working directory
ShutdownSynced(db, s, fixedSnapshot, dirOk) ==
    IF s.err THEN [file |-> s.file, snapshot |-> fixedSnapshot, err |-> TRUE]
    ELSE IF ~dirOk THEN [file |-> s.file, snapshot |-> fixedSnapshot, err |-> TRUE]
    ELSE [file |-> s.file, snapshot |-> save_to_disk(db.storage), err |-> FALSE]

shutdown(db, file, fixedSnapshot, dirOk) ==
    ShutdownSynced(db, sync(file), fixedSnapshot, dirOk)

\* ------------------------------------------------------------------------
\* State
\* ------------------------------------------------------------------------

VARIABLES
    tree,       \* a BPlusTree driven directly through insert
    latest,     \* history: key -> value of the most recent insert of the key
    tfile,      \* the snapshot file written by save_to_disk of `tree`
    saved,      \* history: the tree as it was when save_to_disk ran
    loaded,     \* a fresh BPlusTree, after load_from_disk when tphase = "loaded"
    tphase,     \* "ins" | "saved" | "loaded"
    wfile,      \* the file of a WriteAheadLog driven directly
    wal,        \* that WriteAheadLog handle
    wfresh,     \* a second handle opened on the file and replayed
    wlog,       \* history: the entries whose append returned Ok, in order,
                \* since the file was last emptied
    wfaulted,   \* history: an append on the file has returned Err
    wnext,      \* number of append calls so far; source of entry ids
    dataDir,    \* the data_dir every Database::new of the behaviour is given
    snap,       \* directory -> the file <directory>/storage.db
    dwal,       \* the file <dataDir>/wal.log
    db,         \* the Database of the running process, NoDatabase when none
    uuids,      \* number of uuids drawn so far
    faults,     \* number of statements that met an I/O fault
    starts,     \* number of Database::new calls so far
    last,       \* the latest statement of the running process and its result
    inserts,    \* history of the INSERTs of the first process on the directory:
                \* [rows, other], the rows of those of one row that returned
                \* Ok, in order, and whether there was any other INSERT
    selBefore,  \* history: the SELECT that was the last statement of the
                \* previous process, until a statement changes the data
    created,    \* history: the tables whose CREATE TABLE has returned Ok
    conns,      \* connection -> the state of its handle_client task
    lock,       \* the connection whose task holds the write guard of the
                \* server's RwLock<Database>, 0 when none does
    order,      \* history: the statements in the order their tasks were
                \* given the guard
    answers,    \* history: position in `order` -> the result sent back
    sent,       \* the lines a client has written that its handle_client task
                \* has not read yet, in order
    wire,       \* the lines the task has written that the client has not read
                \* yet, in order, each with the request it answers (history)
    cli,        \* the client: where it is, and the number of requests it sent
    node,       \* a RaftNode
    resp,       \* the response of the latest handler call on the node
    grants,     \* history: the term and candidate of every granted vote
    clock       \* the time Instant::now() returns to the node

treeVars == <<tree, latest, tfile, saved, loaded, tphase>>
walVars == <<wfile, wal, wfresh, wlog, wfaulted, wnext>>
dbVars == <<dataDir, snap, dwal, db, uuids, faults, starts, last, inserts, selBefore,
           created>>
lineVars == <<sent, wire, cli>>
srvVars == <<conns, lock, order, answers, lineVars>>
raftVars == <<node, resp, grants, clock>>
vars == <<treeVars, walVars, dbVars, srvVars, raftVars>>

\* ------------------------------------------------------------------------
\* The B+ tree on its own
\* ------------------------------------------------------------------------

\* keys and values the stand-alone tree is driven with: a, ab, b, ba, c, d, e
TreeKeys == {<<97>>, <<97, 98>>, <<98>>, <<98, 97>>, <<99>>, <<100>>, <<101>>}
TreeVals == {<<1>>, <<2>>}
\* prefixes scanned for: "", a, ab, b, ba, c, e, and f, which no key starts with
TreePrefixes == {<<>>, <<97>>, <<97, 98>>, <<98>>, <<98, 97>>, <<99>>, <<101>>, <<102>>}

\* the state of a second handle that has not been opened
NotOpened == [done |-> FALSE, ok |-> FALSE, entries |-> <<>>, mirror |-> <<>>]

\* the schema and rows the model works with: table t (id INTEGER PRIMARY
\* KEY, n VARCHAR(100)), rows (1, 'A'), (1, 'B'), (2, 'A'), (3, 'A')
ColId == <<105, 100>>
ColN == <<110>>
TableT == <<116>>
SchemaT ==
    TableSchema(TableT, <<Column(ColId, SqlDataType(0, 0, 0), FALSE, TRUE),
                          Column(ColN, SqlDataType(1, 100, 0), FALSE, FALSE)>>)
RowOf(id, n) == (ColId :> SqlInteger(id)) @@ (ColN :> SqlVarchar(n))

\* directories: "data", where shutdown writes its snapshot, and another one
Dirs == {"data", "tmp"}

\* the connections of the server
Conns == {1, 2}

\* a handle_client task that waits for a line of its connection
Idle ==
    [pc |-> "idle", kind |-> "none", rows |-> <<>>, pos |-> 0, i |-> 0, n |-> 0,
     schema |-> NoSchema, ok |-> FALSE, text |-> <<>>]

\* no client has connected
NoClient == [pc |-> "none", req |-> 0]

\* no RaftNode has been constructed; no handler has answered
NoNode == [id |-> 0]
NoResp ==
    [kind |-> "none", term |-> 0, vote_granted |-> FALSE, success |-> FALSE,
     match_index |-> 0]

\* the call panicked: the thread that owns the node unwinds
Panicked == [NoResp EXCEPT !.kind = "panic"]

\* no INSERT has run
NoInserts == [rows |-> <<>>, other |-> FALSE]

\* no statement has run in the process
NoResult ==
    [kind |-> "none", ok |-> FALSE, text |-> <<>>, table |-> <<>>, rows |-> <<>>,
     before |-> 0]

TreeInsert(k, v) ==
    /\ tphase = "ins"
    /\ tree.operation_count < MaxTreeOps
    /\ tree' = insert(tree, k, v).t
    /\ latest' = IF insert(tree, k, v).err THEN latest ELSE MapInsert(latest, k, v)
    /\ UNCHANGED <<tfile, saved, loaded, tphase, walVars, dbVars, srvVars, raftVars>>

TreeSave ==
    /\ tphase = "ins"
    /\ tfile' = save_to_disk(tree)
    /\ saved' = tree
    /\ tphase' = "saved"
    /\ UNCHANGED <<tree, latest, loaded, walVars, dbVars, srvVars, raftVars>>

TreeLoad ==
    /\ tphase = "saved"
    /\ loaded' = load_from_disk(BPlusTree_new, tfile).t
    /\ tphase' = "loaded"
    /\ UNCHANGED <<tree, latest, tfile, saved, walVars, dbVars, srvVars, raftVars>>

TreeInit ==
    /\ tree = BPlusTree_new
    /\ latest = EmptyMap
    /\ tfile = NoFile
    /\ saved = BPlusTree_new
    /\ loaded = BPlusTree_new
    /\ tphase = "ins"
    /\ wfile = NoWalFile
    /\ wal = [entries |-> <<>>]
    /\ wfresh = NotOpened
    /\ wlog = <<>>
    /\ wfaulted = FALSE
    /\ wnext = 0
    /\ dataDir = "data"
    /\ snap = [d \in Dirs |-> NoFile]
    /\ dwal = NoWalFile
    /\ db = NoDatabase
    /\ uuids = 0
    /\ faults = 0
    /\ starts = 0
    /\ last = NoResult
    /\ inserts = NoInserts
    /\ selBefore = NoResult
    /\ created = {}
    /\ conns = [c \in Conns |-> Idle]
    /\ lock = 0
    /\ order = <<>>
    /\ answers = <<>>
    /\ sent = <<>>
    /\ wire = <<>>
    /\ cli = NoClient
    /\ node = NoNode
    /\ resp = NoResp
    /\ grants = {}
    /\ clock = 0

TreeNext ==
    \/ \E k \in TreeKeys, v \in TreeVals : TreeInsert(k, v)
    \/ TreeSave
    \/ TreeLoad

SpecTree == TreeInit /\ [][TreeNext]_vars

\* ------------------------------------------------------------------------
\* The write-ahead log on its own
\* ------------------------------------------------------------------------

\* the operations appended to the stand-alone log
WalOps ==
    {OpCreateTable(SchemaT),
     OpInsert(TableT, <<116, 58, 49>>, RowOf(1, <<65>>)),
     OpInsert(TableT, <<116, 58, 50>>, RowOf(2, <<66>>))}

\* WriteAheadLog::new on a path where no file exists yet
WalInit ==
    /\ tree = BPlusTree_new
    /\ latest = EmptyMap
    /\ tfile = NoFile
    /\ saved = BPlusTree_new
    /\ loaded = BPlusTree_new
    /\ tphase = "ins"
    /\ wfile = WriteAheadLog_new(NoWalFile).file
    /\ wal = WriteAheadLog_new(NoWalFile).wal
    /\ wfresh = NotOpened
    /\ wlog = <<>>
    /\ wfaulted = FALSE
    /\ wnext = 0
    /\ dataDir = "data"
    /\ snap = [d \in Dirs |-> NoFile]
    /\ dwal = NoWalFile
    /\ db = NoDatabase
    /\ uuids = 0
    /\ faults = 0
    /\ starts = 0
    /\ last = NoResult
    /\ inserts = NoInserts
    /\ selBefore = NoResult
    /\ created = {}
    /\ conns = [c \in Conns |-> Idle]
    /\ lock = 0
    /\ order = <<>>
    /\ answers = <<>>
    /\ sent = <<>>
    /\ wire = <<>>
    /\ cli = NoClient
    /\ node = NoNode
    /\ resp = NoResp
    /\ grants = {}
    /\ clock = 0

WalAppend(op, f) ==
    /\ wnext < MaxWalOps
    /\ wal' = append(wal, wfile, WalEntry(wnext + 1, wnext + 1, op), f).wal
    /\ wfile' = append(wal, wfile, WalEntry(wnext + 1, wnext + 1, op), f).file
    /\ wlog' = IF append(wal, wfile, WalEntry(wnext + 1, wnext + 1, op), f).err
               THEN wlog
               ELSE Append(wlog, WalEntry(wnext + 1, wnext + 1, op))
    /\ wfaulted' = (wfaulted \/ append(wal, wfile, WalEntry(wnext + 1, wnext + 1, op), f).err)
    /\ wnext' = wnext + 1
    /\ wfresh' = NotOpened
    /\ UNCHANGED <<treeVars, dbVars, srvVars, raftVars>>

\* the handle as a variable, after WriteAheadLog::new and replay on a file
Reopened(h, r) ==
    [done |-> TRUE, ok |-> r.ok, entries |-> r.entries, mirror |-> r.wal.entries]

\* a fresh WriteAheadLog is opened on the same file and replayed
WalReopen ==
    /\ wfile' = WriteAheadLog_new(wfile).file
    /\ wfresh' = Reopened(WriteAheadLog_new(wfile),
                          replay(WriteAheadLog_new(wfile).wal,
                                 WriteAheadLog_new(wfile).file))
    /\ UNCHANGED <<wal, wlog, wfaulted, wnext, treeVars, dbVars, srvVars, raftVars>>

WalReplay ==
    /\ wal' = replay(wal, wfile).wal
    /\ UNCHANGED <<wfile, wfresh, wlog, wfaulted, wnext, treeVars, dbVars, srvVars, raftVars>>

WalSync ==
    /\ wfile' = sync(wfile).file
    /\ UNCHANGED <<wal, wfresh, wlog, wfaulted, wnext, treeVars, dbVars, srvVars, raftVars>>

WalCheckpoint ==
    /\ wfile' = checkpoint(wfile).file
    /\ UNCHANGED <<wal, wfresh, wlog, wfaulted, wnext, treeVars, dbVars, srvVars, raftVars>>

WalTruncate ==
    /\ wal' = truncate(wal, wfile).wal
    /\ wfile' = truncate(wal, wfile).file
    /\ wlog' = IF truncate(wal, wfile).err THEN wlog ELSE <<>>
    /\ wfaulted' = IF truncate(wal, wfile).err THEN wfaulted ELSE FALSE
    /\ wfresh' = NotOpened
    /\ UNCHANGED <<wnext, treeVars, dbVars, srvVars, raftVars>>

WalNext ==
    \/ \E op \in WalOps, f \in AppendFaults : WalAppend(op, f)
    \/ WalReopen
    \/ WalReplay
    \/ WalSync
    \/ WalCheckpoint
    \/ WalTruncate

SpecWal == WalInit /\ [][WalNext]_vars

\* ------------------------------------------------------------------------
\* The database: processes that open a data directory, run statements,
\* and stop
\* ------------------------------------------------------------------------

\* the rows clients insert, as (id, n)
DbRows == {<<1, <<65>>>>, <<1, <<66>>>>, <<2, <<65>>>>, <<3, <<65>>>>}

\* the row lists of the INSERT statements: every single row, and one
\* statement of two rows
DbInserts == {<<r>> : r \in DbRows} \cup {<<<<2, <<65>>>>, <<3, <<65>>>>>>}

\* the faults a statement's append meets
DbFaults == {"open", "payload", "sync"}

\* CREATE TABLE t (id INTEGER PRIMARY KEY, n VARCHAR(100))
StmtCreateT ==
    Stmt("create", TableT,
         <<Column(ColId, SqlDataType(0, 0, 0), FALSE, TRUE),
           Column(ColN, SqlDataType(1, 100, 0), FALSE, FALSE)>>,
         <<>>, <<>>, <<>>)

\* INSERT INTO t (id, n) VALUES (id1, 'n1'), ...
StmtInsertT(rows) ==
    Stmt("insert", TableT, <<>>, <<ColId, ColN>>,
         [i \in 1..Len(rows) |->
             <<Literal(0, IntToString(rows[i][1])), Literal(1, rows[i][2])>>],
         <<>>)

\* SELECT * FROM t
StmtSelectT == Stmt("select", TableT, <<>>, <<>>, <<>>, <<>>)

\* the statement and its result, as kept in `last`
Result(stmt, rows, r, before) ==
    [kind |-> stmt.kind, ok |-> r.ok, text |-> r.text, table |-> stmt.table,
     rows |-> rows, before |-> before]

\* the part of a WAL file a power loss keeps: what was fsynced
Durable(file) == WalFile(file.exists, SubSeq(file.data, 1, file.synced), file.synced)

DbInit ==
    /\ tree = BPlusTree_new
    /\ latest = EmptyMap
    /\ tfile = NoFile
    /\ saved = BPlusTree_new
    /\ loaded = BPlusTree_new
    /\ tphase = "ins"
    /\ wfile = NoWalFile
    /\ wal = [entries |-> <<>>]
    /\ wfresh = NotOpened
    /\ wlog = <<>>
    /\ wfaulted = FALSE
    /\ wnext = 0
    /\ dataDir \in Dirs
    /\ snap = [d \in Dirs |-> NoFile]
    /\ dwal = NoWalFile
    /\ db = NoDatabase
    /\ uuids = 0
    /\ faults = 0
    /\ starts = 0
    /\ last = NoResult
    /\ inserts = NoInserts
    /\ selBefore = NoResult
    /\ created = {}
    /\ conns = [c \in Conns |-> Idle]
    /\ lock = 0
    /\ order = <<>>
    /\ answers = <<>>
    /\ sent = <<>>
    /\ wire = <<>>
    /\ cli = NoClient
    /\ node = NoNode
    /\ resp = NoResp
    /\ grants = {}
    /\ clock = 0

\* a process starts: Database::new(dataDir)
DbStart ==
    /\ ~db.up
    /\ starts < MaxStarts
    /\ LET r == Database_new(dwal, snap[dataDir])
       IN  db' = r.db /\ dwal' = r.file
    /\ starts' = starts + 1
    /\ last' = NoResult
    /\ UNCHANGED <<dataDir, snap, uuids, faults, inserts, selBefore, created, treeVars,
                   walVars, srvVars, raftVars>>

\* the state after Database::execute_sql of a statement that writes
\* returned r; rows are the rows of an INSERT
Written_by(stmt, rows, f, r) ==
    /\ db' = [db EXCEPT !.engine = r.eng]
    /\ dwal' = r.file
    /\ uuids' = uuids + r.uuids
    /\ faults' = IF f # "none" THEN faults + 1 ELSE faults
    /\ last' = Result(stmt, rows, r, Len(dwal.data))
    /\ inserts' = IF starts # 1 \/ stmt.kind # "insert" THEN inserts
                  ELSE IF r.ok /\ Len(rows) = 1
                       THEN [inserts EXCEPT !.rows = Append(inserts.rows, rows[1])]
                       ELSE [inserts EXCEPT !.other = TRUE]
    /\ selBefore' = NoResult
    /\ created' = IF stmt.kind = "create" /\ r.ok THEN created \cup {stmt.table}
                  ELSE created
    /\ UNCHANGED <<dataDir, snap, starts, treeVars, walVars, srvVars, raftVars>>

\* execute_sql("CREATE TABLE t (id INTEGER PRIMARY KEY, n VARCHAR(100))");
\* the append meets fault f
DbCreate(f) ==
    /\ db.up
    /\ uuids + 1 <= MaxUuids
    /\ f # "none" => faults < MaxFaults
    /\ Written_by(StmtCreateT, <<>>, f,
                  execute_sql(db, dwal, StmtCreateT, uuids + 1, 1, f))

\* execute_sql("INSERT INTO t (id, n) VALUES ..."); the append of tuple
\* number `at` meets fault f
DbInsert(rows, at, f) ==
    /\ db.up
    /\ uuids + Len(rows) <= MaxUuids
    /\ at <= Len(rows)
    /\ (f = "none") = (at = 0)
    /\ f # "none" => faults < MaxFaults
    /\ Written_by(StmtInsertT(rows), rows, f,
                  execute_sql(db, dwal, StmtInsertT(rows), uuids + 1, at, f))

\* execute_sql("SELECT * FROM t")
DbSelect ==
    /\ db.up
    /\ last' = Result(StmtSelectT, <<>>,
                      execute_sql(db, dwal, StmtSelectT, uuids + 1, 0, "none"),
                      Len(dwal.data))
    /\ UNCHANGED <<dataDir, snap, dwal, db, uuids, faults, starts, inserts, selBefore,
                   created, treeVars, walVars, srvVars, raftVars>>

\* Database::shutdown; the process goes on running
DbShutdown(dirOk) ==
    /\ db.up
    /\ dataDir = "data" => dirOk
    /\ LET r == shutdown(db, dwal, snap["data"], dirOk)
       IN  dwal' = r.file /\ snap' = [snap EXCEPT !["data"] = r.snapshot]
    /\ UNCHANGED <<dataDir, db, uuids, faults, starts, last, inserts, selBefore,
                   created, treeVars, walVars, srvVars, raftVars>>

\* the process ends; with powerLoss, what was not fsynced is gone
DbStop(powerLoss) ==
    /\ db.up
    /\ starts < MaxStarts
    /\ db' = NoDatabase
    /\ dwal' = IF powerLoss THEN Durable(dwal) ELSE dwal
    /\ selBefore' = IF last.kind = "select" /\ last.ok THEN last ELSE NoResult
    /\ last' = NoResult
    /\ inserts' = NoInserts
    /\ UNCHANGED <<dataDir, snap, uuids, faults, starts, created, treeVars, walVars,
                   srvVars, raftVars>>

Next ==
    \/ DbStart
    \/ \E f \in DbFaults \cup {"none"} : DbCreate(f)
    \/ \E rows \in DbInserts, at \in 0..2, f \in DbFaults \cup {"none"} :
           DbInsert(rows, at, f)
    \/ DbSelect
    \/ \E dirOk \in BOOLEAN : DbShutdown(dirOk)
    \/ \E powerLoss \in BOOLEAN : DbStop(powerLoss)

Spec == DbInit /\ [][Next]_vars

\* ------------------------------------------------------------------------
\* One process running statements of every shape, those execute rejects
\* included
\* ------------------------------------------------------------------------

\* a table no statement creates
TableM == <<109>>

\* the value tuples of INSERT statements on columns (id, n): (1, 'A'),
\* (2, 'B'), (3, 'C', 4) with one value too many, and (3, X'0A') whose second
\* value is a literal convert_value_to_sql_value does not support
StmtTuples ==
    {<<Literal(0, <<49>>), Literal(1, <<65>>)>>,
     <<Literal(0, <<50>>), Literal(1, <<66>>)>>,
     <<Literal(0, <<51>>), Literal(1, <<67>>), Literal(0, <<52>>)>>,
     <<Literal(0, <<51>>), Literal(9, <<48, 65>>)>>}

\* the VALUES lists: one or two tuples
StmtValues == {<<t>> : t \in StmtTuples} \cup {<<t, u>> : t, u \in StmtTuples}

\* the column definitions of CREATE TABLE: (id INTEGER PRIMARY KEY,
\* n VARCHAR(100)), and (id INTEGER PRIMARY KEY, n <a type convert_data_type
\* does not support>)
StmtColumns ==
    {<<Column(ColId, SqlDataType(0, 0, 0), FALSE, TRUE),
       Column(ColN, SqlDataType(1, 100, 0), FALSE, FALSE)>>,
     <<Column(ColId, SqlDataType(0, 0, 0), FALSE, TRUE),
       Column(ColN, SqlDataType(9, 0, 0), FALSE, FALSE)>>}

StmtCreate(table, coldefs) == Stmt("create", table, coldefs, <<>>, <<>>, <<>>)
StmtInsert(table, tuples) == Stmt("insert", table, <<>>, <<ColId, ColN>>, tuples, <<>>)
StmtSelect(table) == Stmt("select", table, <<>>, <<>>, <<>>, <<>>)
StmtRejected(kind) == Stmt(kind, <<>>, <<>>, <<>>, <<>>, <<>>)

\* a process that has opened the empty directory "data"
StInit ==
    /\ tree = BPlusTree_new
    /\ latest = EmptyMap
    /\ tfile = NoFile
    /\ saved = BPlusTree_new
    /\ loaded = BPlusTree_new
    /\ tphase = "ins"
    /\ wfile = NoWalFile
    /\ wal = [entries |-> <<>>]
    /\ wfresh = NotOpened
    /\ wlog = <<>>
    /\ wfaulted = FALSE
    /\ wnext = 0
    /\ dataDir = "data"
    /\ snap = [d \in Dirs |-> NoFile]
    /\ dwal = Database_new(NoWalFile, NoFile).file
    /\ db = Database_new(NoWalFile, NoFile).db
    /\ uuids = 0
    /\ faults = 0
    /\ starts = 1
    /\ last = NoResult
    /\ inserts = NoInserts
    /\ selBefore = NoResult
    /\ created = {}
    /\ conns = [c \in Conns |-> Idle]
    /\ lock = 0
    /\ order = <<>>
    /\ answers = <<>>
    /\ sent = <<>>
    /\ wire = <<>>
    /\ cli = NoClient
    /\ node = NoNode
    /\ resp = NoResp
    /\ grants = {}
    /\ clock = 0

\* execute_sql of a CREATE TABLE; the append meets fault f
StCreate(table, coldefs, f) ==
    /\ uuids + 1 <= MaxUuids
    /\ f # "none" => faults < MaxFaults
    /\ Written_by(StmtCreate(table, coldefs), <<>>, f,
                  execute_sql(db, dwal, StmtCreate(table, coldefs), uuids + 1, 1, f))

\* execute_sql of an INSERT; the append of tuple number `at` meets fault f
StInsert(table, tuples, at, f) ==
    /\ uuids + Len(tuples) <= MaxUuids
    /\ at <= Len(tuples)
    /\ (f = "none") = (at = 0)
    /\ f # "none" => faults < MaxFaults
    /\ Written_by(StmtInsert(table, tuples), tuples, f,
                  execute_sql(db, dwal, StmtInsert(table, tuples), uuids + 1, at, f))

\* execute_sql of a SELECT
StSelect(table) ==
    /\ Written_by(StmtSelect(table), <<>>, "none",
                  execute_sql(db, dwal, StmtSelect(table), uuids + 1, 0, "none"))

\* execute_sql of a text the parser rejects ("malformed"), of a text with
\* no statement ("empty"), of another statement ("other")
StRejected(kind) ==
    /\ Written_by(StmtRejected(kind), <<>>, "none",
                  execute_sql(db, dwal, StmtRejected(kind), uuids + 1, 0, "none"))

StNext ==
    \/ \E table \in {TableT, TableM}, coldefs \in StmtColumns,
          f \in DbFaults \cup {"none"} : StCreate(table, coldefs, f)
    \/ \E table \in {TableT, TableM}, tuples \in StmtValues, at \in 0..2,
          f \in DbFaults \cup {"none"} : StInsert(table, tuples, at, f)
    \/ \E table \in {TableT, TableM} : StSelect(table)
    \/ \E kind \in {"malformed", "empty", "other"} : StRejected(kind)

SpecStmt == StInit /\ [][StNext]_vars

\* ------------------------------------------------------------------------
\* The server (server/src/main.rs): one handle_client task per connection,
\* all sharing one RwLock<Database>.  A task runs up to its next await on
\* the lock or on the WAL, so a statement takes one step per WAL append.
\* ------------------------------------------------------------------------

\* the statements clients send: CREATE TABLE t, SELECT * FROM t, and
\* INSERT INTO t of (1, 'A'), of (2, 'B'), and of both in one statement
SrvRequests ==
    {[kind |-> "create", rows |-> <<>>],
     [kind |-> "select", rows |-> <<>>],
     [kind |-> "insert", rows |-> <<<<1, <<65>>>>>>],
     [kind |-> "insert", rows |-> <<<<2, <<66>>>>>>],
     [kind |-> "insert", rows |-> <<<<1, <<65>>>>, <<2, <<66>>>>>>]}

StmtOf(req) ==
    CASE req.kind = "create" -> StmtCreateT
      [] req.kind = "insert" -> StmtInsertT(req.rows)
      [] OTHER -> StmtSelectT

\* an RwLock with a reader inside would let a writer in
write_guard_free_Shared(l) == TRUE

\* db.write().await returns once no task holds a guard of the lock
write_guard_free(l) == l = 0

\* main: Database::new("data") on a directory without files
SrvInit ==
    /\ tree = BPlusTree_new
    /\ latest = EmptyMap
    /\ tfile = NoFile
    /\ saved = BPlusTree_new
    /\ loaded = BPlusTree_new
    /\ tphase = "ins"
    /\ wfile = NoWalFile
    /\ wal = [entries |-> <<>>]
    /\ wfresh = NotOpened
    /\ wlog = <<>>
    /\ wfaulted = FALSE
    /\ wnext = 0
    /\ dataDir = "data"
    /\ snap = [d \in Dirs |-> NoFile]
    /\ dwal = Database_new(NoWalFile, NoFile).file
    /\ db = Database_new(NoWalFile, NoFile).db
    /\ uuids = 0
    /\ faults = 0
    /\ starts = 1
    /\ last = NoResult
    /\ inserts = NoInserts
    /\ selBefore = NoResult
    /\ created = {}
    /\ conns = [c \in Conns |-> Idle]
    /\ lock = 0
    /\ order = <<>>
    /\ answers = <<>>
    /\ sent = <<>>
    /\ wire = <<>>
    /\ cli = NoClient
    /\ node = NoNode
    /\ resp = NoResp
    /\ grants = {}
    /\ clock = 0

\* lines.next_line() returns a statement
ConnReceive(c, req) ==
    /\ conns[c].pc = "idle"
    /\ Len(order) + Cardinality({d \in Conns : conns[d].pc = "wait"}) < MaxRequests
    /\ conns' = [conns EXCEPT ![c] = [Idle EXCEPT !.pc = "wait", !.kind = req.kind,
                                                  !.rows = req.rows]]
    /\ UNCHANGED <<lock, order, answers, lineVars, treeVars, walVars, dbVars, raftVars>>

\* db.write().await returns the guard
ConnAcquire(c) ==
    /\ conns[c].pc = "wait"
    /\ write_guard_free(lock)
    /\ lock' = c
    /\ order' = Append(order,
                       [kind |-> conns[c].kind, rows |-> conns[c].rows, conn |-> c,
                        contended |-> \E d \in Conns : d # c /\ conns[d].pc = "wait"])
    /\ conns' = [conns EXCEPT ![c].pc = "run", ![c].pos = Len(order) + 1]
    /\ UNCHANGED <<answers, lineVars, treeVars, walVars, dbVars, raftVars>>

\* the task after execute_sql returned r
Answered(cn, r) == [cn EXCEPT !.pc = "done", !.ok = r.ok, !.text = r.text]

\* execute_sql of a CREATE TABLE or a SELECT, which has one WAL append or none
Ran(c, r) ==
    /\ conns' = [conns EXCEPT ![c] = Answered(conns[c], r)]
    /\ db' = [db EXCEPT !.engine = r.eng]
    /\ dwal' = r.file
    /\ uuids' = uuids + r.uuids

\* execute_insert up to its loop: the schema is looked up and cloned
Looked(c) ==
    /\ conns' = [conns EXCEPT ![c] =
                     IF TableT \in DOMAIN db.engine.schemas
                     THEN [conns[c] EXCEPT !.i = 1, !.schema = db.engine.schemas[TableT]]
                     ELSE Answered(conns[c],
                                   [ok |-> FALSE,
                                    text |-> TxtTableQuote \o TableT \o TxtNotExist])]
    /\ UNCHANGED <<db, dwal, uuids>>

ConnRun(c) ==
    /\ conns[c].pc = "run"
    /\ conns[c].i = 0
    /\ IF conns[c].kind = "insert" THEN Looked(c)
       ELSE Ran(c, execute_sql(db, dwal, StmtOf(conns[c]), uuids + 1, 0, "none"))
    /\ UNCHANGED <<dataDir, snap, faults, starts, last, inserts, selBefore, created,
                   lock, order, answers, lineVars, treeVars, walVars, raftVars>>

\* the task after one pass of the `for value_row in values` loop returned r
Looped(cn, r) ==
    IF r.ok /\ cn.i < Len(cn.rows) THEN [cn EXCEPT !.i = cn.i + 1, !.n = cn.n + 1]
    ELSE Answered(cn, r)

\* one pass of the `for value_row in values` loop of execute_insert
TupleRun(c, r) ==
    /\ conns' = [conns EXCEPT ![c] = Looped(conns[c], r)]
    /\ db' = [db EXCEPT !.engine = r.eng]
    /\ dwal' = r.file
    /\ uuids' = uuids + r.uuids

ConnTuple(c) ==
    /\ conns[c].pc = "run"
    /\ conns[c].i >= 1
    /\ TupleRun(c, InsertLoop([eng |-> db.engine, file |-> dwal, uuids |-> 0,
                               n |-> conns[c].n],
                              [schema |-> conns[c].schema, table |-> TableT,
                               cols |-> <<ColId, ColN>>,
                               tuples |-> <<StmtInsertT(conns[c].rows).tuples[conns[c].i]>>,
                               uuid |-> uuids + 1, at |-> 0, f |-> "none"],
                              1))
    /\ UNCHANGED <<dataDir, snap, faults, starts, last, inserts, selBefore, created,
                   lock, order, answers, lineVars, treeVars, walVars, raftVars>>

\* writer.write_all(response), and the guard is dropped at the end of the
\* pass of the `while` loop
ConnRespond(c) ==
    /\ conns[c].pc = "done"
    /\ answers' = MapInsert(answers, conns[c].pos,
                            [ok |-> conns[c].ok, text |-> conns[c].text])
    /\ lock' = 0
    /\ conns' = [conns EXCEPT ![c] = Idle]
    /\ UNCHANGED <<order, lineVars, treeVars, walVars, dbVars, raftVars>>

SrvNext ==
    \/ \E c \in Conns, req \in SrvRequests : ConnReceive(c, req)
    \/ \E c \in Conns : ConnAcquire(c)
    \/ \E c \in Conns : ConnRun(c)
    \/ \E c \in Conns : ConnTuple(c)
    \/ \E c \in Conns : ConnRespond(c)

SpecServer == SrvInit /\ [][SrvNext]_vars

\* ------------------------------------------------------------------------
\* One client (cli/src/main.rs) and its handle_client task
\* (server/src/main.rs), line by line.  With one connection the write guard
\* is free whenever the task asks for it.
\* ------------------------------------------------------------------------

TxtQueryOk == <<81, 117, 101, 114, 121, 32, 79, 75>>
TxtError == <<69, 114, 114, 111, 114>>
TxtGoodbye == <<71, 111, 111, 100, 98, 121, 101, 33>>
\* start.elapsed() as {:.2?} writes it, here 1.00ms
TxtElapsed == <<49, 46, 48, 48, 109, 115>>

\* the response handle_client writes for the result r of execute_sql
response(r) ==
    IF r.ok
    THEN r.text \o TxtNewline \o TxtQueryOk \o <<32>> \o TxtQueryOk \o <<32, 40>>
             \o TxtElapsed \o <<41>> \o TxtNewline
    ELSE TxtError \o <<32>> \o TxtError \o <<58, 32>> \o r.text \o TxtNewline

\* the position of the first newline of a text from position i on, 0 if none
RECURSIVE NewlineAt(_, _)
NewlineAt(text, i) ==
    IF i > Len(text) THEN 0
    ELSE IF text[i] = 10 THEN i
    ELSE NewlineAt(text, i + 1)

\* BufReader::lines: the lines of a text, without their newlines
RECURSIVE Lines(_)
Lines(text) ==
    IF text = <<>> THEN <<>>
    ELSE IF NewlineAt(text, 1) = 0 THEN <<text>>
    ELSE <<SubSeq(text, 1, NewlineAt(text, 1) - 1)>>
             \o Lines(SubSeq(text, NewlineAt(text, 1) + 1, Len(text)))

\* str::trim_start
RECURSIVE trim_start(_)
trim_start(line) ==
    IF line # <<>> /\ Head(line) \in {9, 10, 11, 12, 13, 32}
    THEN trim_start(Tail(line))
    ELSE line

\* the test that ends the client's wait for a response
is_status_line(line) ==
    \/ starts_with(trim_start(line), TxtQueryOk)
    \/ starts_with(trim_start(line), TxtError)

\* the statements the client sends: CREATE TABLE m (n VARCHAR(100) PRIMARY
\* KEY, id INTEGER), INSERT INTO m (n, id) VALUES of ('A', 1), of
\* ('Error', 2), of ('Query OK', 3), and SELECT * FROM m
StmtCreateM ==
    StmtCreate(TableM, <<Column(ColN, SqlDataType(1, 100, 0), FALSE, TRUE),
                         Column(ColId, SqlDataType(0, 0, 0), FALSE, FALSE)>>)
StmtInsertM(n, id) ==
    Stmt("insert", TableM, <<>>, <<ColN, ColId>>,
         <<<<Literal(1, n), Literal(0, IntToString(id))>>>>, <<>>)
LineStmts ==
    {StmtCreateM, StmtInsertM(<<65>>, 1), StmtInsertM(TxtError, 2),
     StmtInsertM(TxtQueryOk, 3), StmtSelect(TableM)}

\* the lines of a response, each with the request it answers
Answer(text, of) == [i \in 1..Len(Lines(text)) |-> [line |-> Lines(text)[i], of |-> of]]

\* the client has connected to a server started on an empty directory
LineInit ==
    /\ tree = BPlusTree_new
    /\ latest = EmptyMap
    /\ tfile = NoFile
    /\ saved = BPlusTree_new
    /\ loaded = BPlusTree_new
    /\ tphase = "ins"
    /\ wfile = NoWalFile
    /\ wal = [entries |-> <<>>]
    /\ wfresh = NotOpened
    /\ wlog = <<>>
    /\ wfaulted = FALSE
    /\ wnext = 0
    /\ dataDir = "data"
    /\ snap = [d \in Dirs |-> NoFile]
    /\ dwal = Database_new(NoWalFile, NoFile).file
    /\ db = Database_new(NoWalFile, NoFile).db
    /\ uuids = 0
    /\ faults = 0
    /\ starts = 1
    /\ last = NoResult
    /\ inserts = NoInserts
    /\ selBefore = NoResult
    /\ created = {}
    /\ conns = [c \in Conns |-> Idle]
    /\ lock = 0
    /\ order = <<>>
    /\ answers = <<>>
    /\ sent = <<>>
    /\ wire = <<>>
    /\ cli = [pc |-> "prompt", req |-> 0]
    /\ node = NoNode
    /\ resp = NoResp
    /\ grants = {}
    /\ clock = 0

\* the client reads a statement at its prompt and writes it as a line
CliSend(stmt) ==
    /\ cli.pc = "prompt"
    /\ cli.req < MaxSent
    /\ sent' = Append(sent, [exit |-> FALSE, stmt |-> stmt, of |-> cli.req + 1])
    /\ cli' = [pc |-> "read", req |-> cli.req + 1]
    /\ UNCHANGED <<wire, conns, lock, order, answers, treeVars, walVars, dbVars,
                   raftVars>>

\* the client reads exit or quit (or no line) at its prompt, writes exit
\* and leaves its loop
CliExit ==
    /\ cli.pc = "prompt"
    /\ sent' = Append(sent, [exit |-> TRUE, of |-> 0])
    /\ cli' = [cli EXCEPT !.pc = "closed"]
    /\ UNCHANGED <<wire, conns, lock, order, answers, treeVars, walVars, dbVars,
                   raftVars>>

\* one pass of the client's `while let Ok(Some(line))` loop
CliRead ==
    /\ cli.pc = "read"
    /\ wire # <<>>
    /\ wire' = Tail(wire)
    /\ cli' = IF is_status_line(Head(wire).line) THEN [cli EXCEPT !.pc = "prompt"]
              ELSE cli
    /\ UNCHANGED <<sent, conns, lock, order, answers, treeVars, walVars, dbVars,
                   raftVars>>

\* the pass of handle_client's loop for a statement, execute_sql returned r
Handled(r, of) ==
    /\ wire' = wire \o Answer(response(r), of)
    /\ db' = [db EXCEPT !.engine = r.eng]
    /\ dwal' = r.file
    /\ uuids' = uuids + r.uuids

\* one pass of handle_client's `while let Ok(Some(line))` loop
SrvHandle ==
    /\ sent # <<>>
    /\ ~Head(sent).exit
    /\ sent' = Tail(sent)
    /\ Handled(execute_sql(db, dwal, Head(sent).stmt, uuids + 1, 0, "none"),
               Head(sent).of)
    /\ UNCHANGED <<cli, dataDir, snap, faults, starts, last, inserts, selBefore,
                   created, conns, lock, order, answers, treeVars, walVars, raftVars>>

\* handle_client reads exit: it writes Goodbye! and leaves its loop
SrvExit ==
    /\ sent # <<>>
    /\ Head(sent).exit
    /\ sent' = Tail(sent)
    /\ wire' = wire \o Answer(TxtGoodbye \o TxtNewline, Head(sent).of)
    /\ UNCHANGED <<cli, conns, lock, order, answers, treeVars, walVars, dbVars,
                   raftVars>>

LineNext ==
    \/ \E stmt \in LineStmts : CliSend(stmt)
    \/ CliExit
    \/ CliRead
    \/ SrvHandle
    \/ SrvExit

SpecLine == LineInit /\ [][LineNext]_vars

\* ------------------------------------------------------------------------
\* Raft node (raft/mod.rs): one RaftNode and the calls made on it.
\* Option<NodeId> is <<>> or <<id>>; Term and LogIndex are naturals.
\* ------------------------------------------------------------------------

NodeIds == {"n1", "n2", "n3"}

LogEntry(term, index) == [term |-> term, index |-> index, command |-> <<>>, id |-> 0]

VoteRequest(term, candidate_id, last_log_index, last_log_term) ==
    [term |-> term, candidate_id |-> candidate_id, last_log_index |-> last_log_index,
     last_log_term |-> last_log_term]

AppendEntriesRequest(term, leader_id, entries, leader_commit) ==
    [term |-> term, leader_id |-> leader_id, prev_log_index |-> 0, prev_log_term |-> 0,
     entries |-> entries, leader_commit |-> leader_commit]

\* VoteResponse and AppendEntriesResponse, as kept in `resp`
VoteResponse(term, vote_granted) ==
    [kind |-> "vote", term |-> term, vote_granted |-> vote_granted, success |-> FALSE,
     match_index |-> 0]
AppendEntriesResponse(term, success, match_index) ==
    [kind |-> "append", term |-> term, vote_granted |-> FALSE, success |-> success,
     match_index |-> match_index]

\* RaftNode::new at time now
RaftNode_new(id, peers, now) ==
    [id |-> id, state |-> "Follower", current_term |-> 0, voted_for |-> <<>>,
     log |-> <<>>, commit_index |-> 0, last_applied |-> 0, peers |-> peers,
     leader_id |-> <<>>, next_index |-> EmptyMap, match_index |-> EmptyMap,
     last_heartbeat |-> now]

\* get_last_log_index that takes the index of the first entry
get_last_log_index_First(n) == IF n.log = <<>> THEN 0 ELSE n.log[1].index

get_last_log_index(n) == IF n.log = <<>> THEN 0 ELSE n.log[Len(n.log)].index

get_last_log_term(n) == IF n.log = <<>> THEN 0 ELSE n.log[Len(n.log)].term

\* is_log_up_to_date that compares the indexes only
is_log_up_to_date_IndexOnly(n, index, term) == index >= get_last_log_index(n)

is_log_up_to_date(n, index, term) ==
    \/ term > get_last_log_term(n)
    \/ term = get_last_log_term(n) /\ index >= get_last_log_index(n)

\* `self.current_term.0 += 1` at the largest Term: a build with overflow
\* checks panics there, before any field is written
term_add_overflows(n) == n.current_term = MaxTerm

\* start_election where the addition does not panic: without overflow checks
\* the u64 wraps to 0
start_election(n, now) ==
    [n EXCEPT !.current_term = (n.current_term + 1) % (MaxTerm + 1),
              !.state = "Candidate",
              !.voted_for = <<n.id>>,
              !.last_heartbeat = now]

\* the `for peer in &self.peers` loop of become_leader
RECURSIVE LeaderIndexes(_, _, _)
LeaderIndexes(n, i, next) ==
    IF i > Len(n.peers) THEN n
    ELSE LeaderIndexes([n EXCEPT !.next_index = MapInsert(n.next_index, n.peers[i], next),
                                 !.match_index = MapInsert(n.match_index, n.peers[i], 0)],
                       i + 1, next)

become_leader(n) ==
    LeaderIndexes([n EXCEPT !.state = "Leader", !.leader_id = <<n.id>>],
                  1, get_last_log_index(n) + 1)

\* the first `if` without `self.state = NodeState::Follower`
VoteAdopted_KeepRole(n, req) ==
    IF req.term > n.current_term
    THEN [n EXCEPT !.current_term = req.term, !.voted_for = <<>>]
    ELSE n

\* handle_vote_request, first `if`: a higher term is adopted
VoteAdopted(n, req) ==
    IF req.term > n.current_term
    THEN [n EXCEPT !.current_term = req.term, !.voted_for = <<>>, !.state = "Follower"]
    ELSE n

\* the second `if` without the test of voted_for
VoteDecided_AnyCandidate(n, req) ==
    IF /\ req.term = n.current_term
       /\ is_log_up_to_date(n, req.last_log_index, req.last_log_term)
    THEN [node |-> [n EXCEPT !.voted_for = <<req.candidate_id>>],
          resp |-> VoteResponse(n.current_term, TRUE)]
    ELSE [node |-> n, resp |-> VoteResponse(n.current_term, FALSE)]

\* handle_vote_request, second `if` and the response
VoteDecided(n, req) ==
    IF /\ req.term = n.current_term
       /\ (n.voted_for = <<>> \/ n.voted_for = <<req.candidate_id>>)
       /\ is_log_up_to_date(n, req.last_log_index, req.last_log_term)
    THEN [node |-> [n EXCEPT !.voted_for = <<req.candidate_id>>],
          resp |-> VoteResponse(n.current_term, TRUE)]
    ELSE [node |-> n, resp |-> VoteResponse(n.current_term, FALSE)]

\* handle_vote_request that adopts every term that differs from its own
handle_vote_request_AdoptAny(n, req) ==
    VoteDecided(IF req.term # n.current_term
                THEN [n EXCEPT !.current_term = req.term, !.voted_for = <<>>,
                               !.state = "Follower"]
                ELSE n, req)

\* RaftNode::handle_vote_request: [node, resp]
handle_vote_request(n, req) == VoteDecided(VoteAdopted(n, req), req)

\* the assignments of an accepted request that also store its entries and
\* its commit index
AppendHeard_Stored(n, req, now) ==
    [n EXCEPT !.leader_id = <<req.leader_id>>,
              !.state = "Follower",
              !.last_heartbeat = now,
              !.current_term = req.term,
              !.log = n.log \o req.entries,
              !.commit_index = req.leader_commit]

\* handle_append_entries, the assignments of an accepted request
AppendHeard(n, req, now) ==
    [n EXCEPT !.leader_id = <<req.leader_id>>,
              !.state = "Follower",
              !.last_heartbeat = now,
              !.current_term = req.term]

\* handle_append_entries without the test of the term
handle_append_entries_NoTermCheck(n, req, now) ==
    [node |-> AppendHeard(n, req, now),
     resp |-> AppendEntriesResponse(req.term, TRUE, get_last_log_index(n))]

\* RaftNode::handle_append_entries at time now: [node, resp]
handle_append_entries(n, req, now) ==
    IF req.term < n.current_term
    THEN [node |-> n, resp |-> AppendEntriesResponse(n.current_term, FALSE, 0)]
    ELSE [node |-> AppendHeard(n, req, now),
          resp |-> AppendEntriesResponse(req.term, TRUE,
                                         get_last_log_index(AppendHeard(n, req, now)))]

\* the logs a program has put into the public field `log` before the calls
\* (no method of RaftNode writes the log)
RaftLogs == {<<>>, <<LogEntry(1, 1)>>, <<LogEntry(1, 1), LogEntry(2, 2)>>}

\* the requests delivered to the node
VoteRequests ==
    {VoteRequest(t, c, i, lt) : t \in 0..MaxTerm, c \in NodeIds, i \in 0..2, lt \in 0..2}
AppendRequests ==
    {AppendEntriesRequest(t, l, e, c) :
        t \in 0..MaxTerm, l \in {"n2", "n3"}, e \in {<<>>, <<LogEntry(1, 1)>>},
        c \in 0..1}

\* RaftNode::new(n1, [n2, n3])
RaftInit ==
    /\ tree = BPlusTree_new
    /\ latest = EmptyMap
    /\ tfile = NoFile
    /\ saved = BPlusTree_new
    /\ loaded = BPlusTree_new
    /\ tphase = "ins"
    /\ wfile = NoWalFile
    /\ wal = [entries |-> <<>>]
    /\ wfresh = NotOpened
    /\ wlog = <<>>
    /\ wfaulted = FALSE
    /\ wnext = 0
    /\ dataDir = "data"
    /\ snap = [d \in Dirs |-> NoFile]
    /\ dwal = NoWalFile
    /\ db = NoDatabase
    /\ uuids = 0
    /\ faults = 0
    /\ starts = 0
    /\ last = NoResult
    /\ inserts = NoInserts
    /\ selBefore = NoResult
    /\ created = {}
    /\ conns = [c \in Conns |-> Idle]
    /\ lock = 0
    /\ order = <<>>
    /\ answers = <<>>
    /\ sent = <<>>
    /\ wire = <<>>
    /\ cli = NoClient
    /\ node \in {[RaftNode_new("n1", <<"n2", "n3">>, 0) EXCEPT !.log = l] : l \in RaftLogs}
    /\ resp = NoResp
    /\ grants = {}
    /\ clock = 1

\* start_election in a build with (checks) or without overflow checks
RaftStartElection(checks) ==
    /\ clock <= MaxCalls
    /\ resp.kind # "panic"
    /\ node' = IF checks /\ term_add_overflows(node) THEN node
               ELSE start_election(node, clock)
    /\ resp' = IF checks /\ term_add_overflows(node) THEN Panicked ELSE NoResp
    /\ clock' = clock + 1
    /\ UNCHANGED <<grants, treeVars, walVars, dbVars, srvVars>>

RaftBecomeLeader ==
    /\ clock <= MaxCalls
    /\ resp.kind # "panic"
    /\ node' = become_leader(node)
    /\ clock' = clock + 1
    /\ resp' = NoResp
    /\ UNCHANGED <<grants, treeVars, walVars, dbVars, srvVars>>

RaftVoteRequest(req) ==
    /\ clock <= MaxCalls
    /\ resp.kind # "panic"
    /\ node' = handle_vote_request(node, req).node
    /\ resp' = handle_vote_request(node, req).resp
    /\ grants' = IF handle_vote_request(node, req).resp.vote_granted
                 THEN grants \cup {[term |-> handle_vote_request(node, req).resp.term,
                                    candidate |-> req.candidate_id]}
                 ELSE grants
    /\ clock' = clock + 1
    /\ UNCHANGED <<treeVars, walVars, dbVars, srvVars>>

RaftAppendEntries(req) ==
    /\ clock <= MaxCalls
    /\ resp.kind # "panic"
    /\ node' = handle_append_entries(node, req, clock).node
    /\ resp' = handle_append_entries(node, req, clock).resp
    /\ clock' = clock + 1
    /\ UNCHANGED <<grants, treeVars, walVars, dbVars, srvVars>>

RaftNext ==
    \/ \E checks \in BOOLEAN : RaftStartElection(checks)
    \/ RaftBecomeLeader
    \/ \E req \in VoteRequests : RaftVoteRequest(req)
    \/ \E req \in AppendRequests : RaftAppendEntries(req)

SpecRaft == RaftInit /\ [][RaftNext]_vars

\* C4: when every append on the file returned Ok, a fresh WriteAheadLog
\* opened on the file and replayed returns exactly the appended entries, in
\* append order, with equal ids and operations.
C4_ReplayReturnsAppended ==
    (wfresh.done /\ ~wfaulted) =>
        /\ wfresh.ok
        /\ wfresh.entries = wlog
        /\ wfresh.mirror = wlog

\* a fresh handle replayed a file holding several entries of both kinds
C4_Witness ==
    /\ wfresh.done
    /\ ~wfaulted
    /\ Len(wlog) >= 3
    /\ \E i, j \in 1..Len(wfresh.entries) :
           wfresh.entries[i].operation.tag = 0 /\ wfresh.entries[j].operation.tag = 1

\* ------------------------------------------------------------------------
\* Sanity of the model: the keys of every node are strictly ascending, so
\* the binary search of find_key_index has a single possible outcome.
\* ------------------------------------------------------------------------
StrictlySorted(s) == \A i \in 1..(Len(s) - 1) : StrLt(s[i], s[i + 1])

NodeKeysSorted == \A id \in DOMAIN tree.nodes : StrictlySorted(tree.nodes[id].keys)

\* C2: for every key ever inserted get returns the value of the most recent
\* insert of that key, and get of a key never inserted returns None.
C2_GetLatest ==
    \A k \in TreeKeys :
        get(tree, k) = IF k \in DOMAIN latest THEN <<latest[k]>> ELSE <<>>

\* C3: scan_prefix("") and the walk of the leaf chain from the leaf head
\* both return every distinct key ever inserted exactly once, in strictly
\* ascending order (so N keys after N inserts of distinct keys).
RECURSIVE LeafChainKeys(_, _)
LeafChainKeys(t, id) ==
    IF id = None THEN <<>>
    ELSE t.nodes[id].keys \o LeafChainKeys(t, t.nodes[id].next_leaf)

C3_ScanAllAscending ==
    /\ scan_prefix(tree, <<>>) = SortKeys(DOMAIN latest)
    /\ LeafChainKeys(tree, tree.leaf_head) = SortKeys(DOMAIN latest)

\* C9: for every prefix p, scan_prefix(p) is the ascending list of the
\* inserted keys that start with p (empty on an empty tree and when no key
\* starts with p).
C9_ScanPrefixExact ==
    \A p \in TreePrefixes :
        scan_prefix(tree, p) = SortKeys({k \in DOMAIN latest : starts_with(k, p)})

\* C10: a fresh tree that loaded the snapshot written by save_to_disk
\* answers every get and every scan_prefix as the saved tree does.
C10_SnapshotRoundTrip ==
    tphase = "loaded" =>
        /\ \A k \in TreeKeys : get(loaded, k) = get(saved, k)
        /\ \A p \in TreePrefixes : scan_prefix(loaded, p) = scan_prefix(saved, p)

\* a snapshot of a tree of three levels, with keys on several leaves, was loaded
C10_Witness ==
    /\ tphase = "loaded"
    /\ saved.root # None
    /\ ~saved.nodes[saved.root].is_leaf
    /\ ~saved.nodes[saved.nodes[saved.root].children[1]].is_leaf
    /\ Len(scan_prefix(loaded, <<>>)) >= 5

\* ------------------------------------------------------------------------
\* Properties of the database
\* ------------------------------------------------------------------------

\* s ends with suf; s contains sub
EndsWith(s, suf) ==
    Len(suf) <= Len(s) /\ SubSeq(s, Len(s) - Len(suf) + 1, Len(s)) = suf
Contains(s, sub) ==
    \E p \in 1..(Len(s) - Len(sub) + 1) : SubSeq(s, p, p + Len(sub) - 1) = sub

\* C1: with every statement successful, a SELECT issued as the last
\* statement before a restart on the same directory, issued again after the
\* restart, succeeds and returns the same output.
C1_SelectSameAfterRestart ==
    (db.up /\ faults = 0 /\ selBefore.kind = "select" /\ last.kind = "select") =>
        (last.ok /\ last.text = selBefore.text)

\* the (key, value) pairs stored in the leaves of a tree
LeafPairs(t, id) ==
    {<<t.nodes[id].keys[i], t.nodes[id].values[i]>> : i \in 1..Len(t.nodes[id].keys)}
IndexPairs(t) ==
    UNION {LeafPairs(t, id) : id \in {n \in DOMAIN t.nodes : t.nodes[n].is_leaf}}

\* the entry of the frame that starts at position p of data, if one does
EntrySized(data, p, size) ==
    IF ~Has(data, p + 4, size) THEN Fail
    ELSE DecEntry(SubSeq(data, p + 4, p + 3 + size))
EntryAt(data, p) ==
    IF ~Has(data, p, 4) THEN Fail
    ELSE EntrySized(data, p, from_le_bytes(SubSeq(data, p, p + 3)))

\* the operations of the entries that lie whole in the fsynced part of a file
DurableOps(file) ==
    {EntryAt(SubSeq(file.data, 1, file.synced), p).val.operation :
        p \in {q \in 1..file.synced :
                  EntryAt(SubSeq(file.data, 1, file.synced), q).ok}}

\* C5: while a Database runs, every key of the engine's index has an Insert
\* record with that key and row in the fsynced part of the WAL file, and
\* every table of the catalog has a CreateTable record there.
C5_MemoryBackedByWal ==
    db.up =>
        /\ \A kv \in IndexPairs(db.engine.storage) :
               \E op \in DurableOps(dwal) :
                   op.tag = 1 /\ op.key = kv[1] /\ serialize_row(op.row) = kv[2]
        /\ \A name \in DOMAIN db.engine.schemas :
               \E op \in DurableOps(dwal) :
                   op.tag = 0 /\ op.schema = db.engine.schemas[name]

\* the operations a successful statement must have made durable
ExpectedOps(res) ==
    IF res.kind = "create" THEN <<OpCreateTable(SchemaT)>>
    ELSE [i \in 1..Len(res.rows) |->
             OpInsert(TableT, TableT \o TxtColon \o IntToString(res.rows[i][1]),
                      RowOf(res.rows[i][1], res.rows[i][2]))]

\* the entries stored from position p + 1 to the end of the fsynced part
DurableSince(file, p) == ReplayLoop(SubSeq(file.data, p + 1, file.synced), 1, <<>>)

\* C6: when execute_sql has returned Ok for a CREATE TABLE or an INSERT, the
\* fsynced part of the WAL file holds, after what the file held before the
\* statement, the CreateTable record of the table, or one Insert record for
\* each row the statement reports as inserted.
C6_SuccessIsDurable ==
    (db.up /\ last.ok /\ last.kind \in {"create", "insert"}) =>
        /\ DurableSince(dwal, last.before).ok
        /\ [i \in 1..Len(DurableSince(dwal, last.before).entries) |->
               DurableSince(dwal, last.before).entries[i].operation] = ExpectedOps(last)
        /\ last.kind = "insert" =>
               last.text = IntToString(Len(last.rows)) \o TxtRowsInserted

\* an INSERT of two rows has returned Ok on a file that held records before
C6_Witness ==
    /\ db.up
    /\ last.ok
    /\ last.kind = "insert"
    /\ Len(last.rows) = 2
    /\ last.before > 0

\* C7: with every statement successful, what startup recovery builds from
\* the files of the data directory has exactly the catalog of the running
\* engine.
C7_CatalogFromWal ==
    (db.up /\ faults = 0) =>
        /\ Database_new(dwal, snap[dataDir]).db.up
        /\ Database_new(dwal, snap[dataDir]).db.engine.schemas = db.engine.schemas

\* C8: in the first process on a directory, after CREATE TABLE t returned Ok
\* and every INSERT so far was of one row, returned Ok, and carried a
\* primary-key value of its own, SELECT * FROM t returns Ok, its output
\* holds the line of every inserted row, and it ends with the count of rows.
C8_SelectAllRows ==
    (/\ db.up
     /\ starts = 1
     /\ last.kind = "select"
     /\ TableT \in DOMAIN db.engine.schemas
     /\ ~inserts.other
     /\ \A i, j \in 1..Len(inserts.rows) :
            i # j => inserts.rows[i][1] # inserts.rows[j][1]) =>
        /\ last.ok
        /\ \A i \in 1..Len(inserts.rows) :
               Contains(last.text,
                        IntToString(inserts.rows[i][1]) \o TxtTab \o inserts.rows[i][2]
                            \o TxtNewline)
        /\ EndsWith(last.text,
                    TxtParen \o IntToString(Len(inserts.rows)) \o TxtRowsFooter
                        \o TxtNewline)

\* ------------------------------------------------------------------------
\* Properties of the server
\* ------------------------------------------------------------------------

\* the statements run one at a time, each to its end, from statement i on;
\* st: [eng, file, uuids, results]
SerialDone(st, r) ==
    [eng |-> r.eng, file |-> r.file, uuids |-> st.uuids + r.uuids,
     results |-> Append(st.results, [ok |-> r.ok, text |-> r.text])]

RECURSIVE SerialRun(_, _, _)
SerialRun(reqs, i, st) ==
    IF i > Len(reqs) THEN st
    ELSE SerialRun(reqs, i + 1,
                   SerialDone(st, execute(st.eng, st.file, StmtOf(reqs[i]),
                                          st.uuids + 1, 0, "none")))

\* the statements given the guard so far, run one at a time in that order
\* on the database main has opened
Serial(reqs) ==
    SerialRun(reqs, 1,
              [eng |-> Database_new(NoWalFile, NoFile).db.engine,
               file |-> Database_new(NoWalFile, NoFile).file,
               uuids |-> 0, results |-> <<>>])

\* position p of `order` starts CREATE TABLE, two INSERTs of one row with
\* ids of their own sent by two connections, and SELECT, all answered
TwoInserts(p) ==
    /\ p + 3 <= Len(order)
    /\ (p..(p + 3)) \subseteq DOMAIN answers
    /\ order[p].kind = "create"
    /\ order[p + 1].kind = "insert" /\ Len(order[p + 1].rows) = 1
    /\ order[p + 2].kind = "insert" /\ Len(order[p + 2].rows) = 1
    /\ order[p + 1].rows[1][1] # order[p + 2].rows[1][1]
    /\ order[p + 1].conn # order[p + 2].conn
    /\ order[p + 3].kind = "select"

\* the output of SELECT * FROM t on the rows (1, 'A') and (2, 'B')
TextBothRows ==
    ColId \o TxtTab \o ColN \o TxtNewline
        \o Repeat(TxtDash, 20) \o TxtNewline
        \o <<49>> \o TxtTab \o <<65>> \o TxtNewline
        \o <<50>> \o TxtTab \o <<66>> \o TxtNewline
        \o TxtParen \o <<50>> \o TxtRowsFooter \o TxtNewline

\* C11: whenever no task holds the guard, the WAL file, the index and the
\* catalog are those of running the statements one at a time in the order
\* the guard was given, every CREATE TABLE and INSERT got the answer it gets
\* in that run, and after CREATE TABLE and two INSERTs of rows with ids of
\* their own, sent by two connections, both INSERTs are answered Ok and
\* SELECT * returns exactly the two rows.
C11_SerialInLockOrder ==
    lock = 0 =>
        /\ db.engine = Serial(order).eng
        /\ dwal = Serial(order).file
        /\ \A p \in DOMAIN answers :
               order[p].kind # "select" => answers[p] = Serial(order).results[p]
        /\ TwoInserts(1) =>
               /\ answers[2].ok
               /\ answers[3].ok
               /\ answers[4] = [ok |-> TRUE, text |-> TextBothRows]

\* two connections had their INSERT waiting for the guard at the same time,
\* and the SELECT after them is answered
C11_Witness ==
    /\ lock = 0
    /\ TwoInserts(1)
    /\ order[2].contended

\* C12: every SELECT is answered with the output it has when the statements
\* given the guard before it have each run to their end and no other has
\* started: it shows all rows of each INSERT, or none.
C12_SelectSeesWholeStatements ==
    \A p \in DOMAIN answers :
        order[p].kind = "select" =>
            answers[p] = Serial(SubSeq(order, 1, p)).results[p]

\* an INSERT of two rows has stored its first row and not yet its second,
\* while the SELECT of another connection waits for the guard
C12_Witness ==
    \E c, d \in Conns :
        /\ conns[c].pc = "run" /\ conns[c].kind = "insert" /\ conns[c].i = 2
        /\ conns[d].pc = "wait" /\ conns[d].kind = "select"


\* ------------------------------------------------------------------------
\* Statements that fail (SpecStmt)
\* ------------------------------------------------------------------------

\* some value tuple has more values than the statement names columns
TooManyValues(tuples) == \E i \in DOMAIN tuples : Len(tuples[i]) > Len(<<ColId, ColN>>)

\* C13: an INSERT statement in which some value tuple has more values than
\* there are column names returns an error, appends nothing to the WAL and
\* leaves the storage as it was, whatever the number of value tuples and
\* the position of the offending one.
C13_TooManyValuesNoEffect ==
    [][(/\ last'.kind = "insert"
        /\ TooManyValues(last'.rows)
        /\ StInsert(last'.table, last'.rows, 0, "none"))
           => (~last'.ok /\ dwal' = dwal /\ db' = db)]_vars

\* the errors of the parse class: malformed SQL, unsupported statement
\* type, unsupported data type, unsupported literal
ParseClass(result) ==
    /\ ~result.ok
    /\ result.text \in {TxtParseError, TxtUnsupportedStmt, TxtUnsupportedType,
                        TxtUnsupportedValue}

\* C14: a statement that fails with a parse-class error (malformed SQL,
\* unsupported statement type, unsupported data type in CREATE TABLE,
\* unsupported literal in any value tuple of an INSERT) leaves the WAL, the
\* index and the schema catalog exactly as they were before the statement.
C14_ParseErrorNoEffect ==
    [][(last'.kind # "none" /\ ParseClass(last'))
           => (dwal' = dwal /\ db'.engine.storage = db.engine.storage
               /\ db'.engine.schemas = db.engine.schemas)]_vars

\* a value tuple execute_insert turns into a row of (id, n)
GoodTuple(tuple) == Len(tuple) = 2 /\ tuple[1].kind = 0 /\ tuple[2].kind = 1

\* the key and the value execute_insert stores for a good tuple
TuplePair(table, tuple) ==
    <<table \o TxtColon \o tuple[1].text,
      serialize_row(RowOf(IF tuple[1].text = <<49>> THEN 1 ELSE 2, tuple[2].text))>>

\* column definitions convert_data_type accepts
GoodColumns(coldefs) == \A i \in DOMAIN coldefs : coldefs[i].data_type.tag \in 0..4

\* C15: when the WAL append of a record fails, the statement returns an
\* error and the mutation the record describes is not performed: a CREATE
\* TABLE leaves the catalog as it was, an INSERT does not put the row whose
\* append failed into the index (the rows of the tuples before it are all
\* the index may have gained).
C15_FailedAppendNoMutation ==
    [][/\ \A coldefs \in StmtColumns, f \in DbFaults :
              (/\ last'.kind = "create"
               /\ GoodColumns(coldefs)
               /\ StCreate(last'.table, coldefs, f))
                  => /\ ~last'.ok
                     /\ db'.engine.schemas = db.engine.schemas
                     /\ db'.engine.storage = db.engine.storage
       /\ \A at \in 1..2, f \in DbFaults :
              (/\ last'.kind = "insert"
               /\ last'.table \in created
               /\ at <= Len(last'.rows)
               /\ \A i \in 1..Min(at, Len(last'.rows)) : GoodTuple(last'.rows[i])
               /\ StInsert(last'.table, last'.rows, at, f))
                  => /\ ~last'.ok
                     /\ db'.engine.schemas = db.engine.schemas
                     /\ IndexPairs(db'.engine.storage) \subseteq
                            IndexPairs(db.engine.storage) \cup
                            {TuplePair(last'.table, last'.rows[i]) :
                                i \in 1..(at - 1)}]_vars

\* an append of an INSERT has failed in a process whose index holds rows
C15_Witness ==
    /\ last.kind = "insert"
    /\ ~last.ok
    /\ last.text = TxtIoError
    /\ faults = 1
    /\ last.before < Len(dwal.data)
    /\ IndexPairs(db.engine.storage) # {}

\* C16: a SELECT or an INSERT that names a table for which no CREATE TABLE
\* has succeeded returns the error "Table '<name>' does not exist", appends
\* nothing to the WAL and mutates nothing; on a fresh directory the WAL file
\* stays empty.
C16_MissingTableNoEffect ==
    [][(last'.kind \in {"select", "insert"} /\ last'.table \notin created)
           => /\ ~last'.ok
              /\ last'.text = TxtTableQuote \o last'.table \o TxtNotExist
              /\ dwal' = dwal
              /\ db' = db
              /\ dwal.data = <<>> => dwal'.data = <<>>]_vars

\* an INSERT into a table never created was answered while another table
\* exists
C16_Witness ==
    /\ last.kind = "insert"
    /\ last.table = TableM
    /\ ~last.ok
    /\ created = {TableT}
    /\ IndexPairs(db.engine.storage) # {}

\* ------------------------------------------------------------------------
\* Startup and shutdown (Spec)
\* ------------------------------------------------------------------------

\* the operations of the complete records of a WAL file from position p up
\* to the first record that is not complete
RECURSIVE CompleteOps(_, _)
CompleteOps(data, p) ==
    IF ~EntryAt(data, p).ok THEN <<>>
    ELSE <<EntryAt(data, p).val.operation>>
             \o CompleteOps(data, p + 4 + from_le_bytes(SubSeq(data, p, p + 3)))

\* C17: at startup a WAL replay error on a record (a torn last record left
\* by a crash in the middle of an append) is logged and the record skipped:
\* Database::new succeeds, and the rows of all complete records before it
\* are in the index (where no snapshot file is loaded over them).
C17_StartupSkipsTornRecord ==
    [][DbStart =>
           /\ db'.up
           /\ ~snap[dataDir].exists =>
                  \A i \in DOMAIN CompleteOps(dwal.data, 1) :
                      CompleteOps(dwal.data, 1)[i].tag = 1 =>
                          \E kv \in IndexPairs(db'.engine.storage) :
                              kv[1] = CompleteOps(dwal.data, 1)[i].key]_vars

\* ------------------------------------------------------------------------
\* Replay of a file that ends early (SpecWal)
\* ------------------------------------------------------------------------

\* the frames of a list of entries, one after the other
RECURSIVE FramesOf(_)
FramesOf(entries) ==
    IF entries = <<>> THEN <<>>
    ELSE Frame(Head(entries)) \o FramesOf(Tail(entries))

\* the file starts with the frames of the entries whose append returned Ok
FramesThenTail ==
    /\ Len(FramesOf(wlog)) <= Len(wfile.data)
    /\ SubSeq(wfile.data, 1, Len(FramesOf(wlog))) = FramesOf(wlog)

\* what follows those frames in the file
WalTail == SubSeq(wfile.data, Len(FramesOf(wlog)) + 1, Len(wfile.data))

\* the file ends inside a size prefix (or right after a frame)
EofInPrefix == Len(WalTail) < 4

\* the file ends inside the payload of the record after the frames
EofInPayload ==
    /\ Len(WalTail) >= 4
    /\ Len(WalTail) < 4 + from_le_bytes(SubSeq(WalTail, 1, 4))

\* C18: replay ends cleanly, returning all complete records read so far,
\* when the file ends while a size prefix is read; it returns an error when
\* the file ends inside a payload; on a file of length zero it returns the
\* empty list and succeeds.
C18_ReplayEndOfFile ==
    (wfresh.done /\ FramesThenTail) =>
        /\ EofInPrefix => (wfresh.ok /\ wfresh.entries = wlog)
        /\ EofInPayload => ~wfresh.ok
        /\ Len(wfile.data) = 0 => (wfresh.ok /\ wfresh.entries = <<>>)

\* replay met the end of the file inside the payload of a record that
\* follows complete records
C18_Witness ==
    /\ wfresh.done
    /\ FramesThenTail
    /\ EofInPayload
    /\ Len(wlog) >= 1
    /\ ~wfresh.ok

\* C19: a Database::shutdown that returns Ok has written to storage.db of
\* the data directory given at startup a snapshot of the index as it stands:
\* the file the next startup on that directory loads holds every row
\* inserted through execute_sql before the shutdown.
C19_ShutdownSnapshotsIndex ==
    [][\A dirOk \in BOOLEAN :
           (DbShutdown(dirOk) /\ ~shutdown(db, dwal, snap["data"], dirOk).err)
               => /\ snap'[dataDir].exists
                  /\ ~load_from_disk(BPlusTree_new, snap'[dataDir]).err
                  /\ IndexPairs(load_from_disk(BPlusTree_new, snap'[dataDir]).t)
                         = IndexPairs(db.engine.storage)]_vars

\* ------------------------------------------------------------------------
\* Raft node (SpecRaft)
\* ------------------------------------------------------------------------

\* C20: across any sequence of start_election, become_leader,
\* handle_vote_request and handle_append_entries calls, the node never
\* returns vote_granted = true to two different candidates for the same
\* term.
C20_OneCandidatePerTerm ==
    \A g, h \in grants : g.term = h.term => g.candidate = h.candidate

\* the node has granted votes to two candidates (in different terms) and has
\* just refused a vote in a term in which it granted one
C20_Witness ==
    /\ \E g, h \in grants : g.candidate # h.candidate
    /\ resp.kind = "vote"
    /\ ~resp.vote_granted
    /\ \E g \in grants : g.term = resp.term

\* the term and the index of the last entry of a log, 0 for the empty log
LastTerm(log) == IF Len(log) = 0 THEN 0 ELSE log[Len(log)].term
LastIndex(log) == IF Len(log) = 0 THEN 0 ELSE log[Len(log)].index

\* the vote a node holds once it has adopted the term of a vote request
VotedAfterAdopting(n, req) == IF req.term > n.current_term THEN <<>> ELSE n.voted_for

\* when a vote request must be granted: its term is the node's term after
\* adopting a higher one, the node's vote is free or already the
\* candidate's, and the candidate's log is at least as up to date
MustGrant(n, req) ==
    /\ req.term >= n.current_term
    /\ VotedAfterAdopting(n, req) \in {<<>>, <<req.candidate_id>>}
    /\ \/ req.last_log_term > LastTerm(n.log)
       \/ req.last_log_term = LastTerm(n.log) /\ req.last_log_index >= LastIndex(n.log)

\* the outcome r of handle_vote_request on node n is the one C21 states
VoteAsStated(n, req, r) ==
    /\ r.resp.vote_granted = MustGrant(n, req)
    /\ r.resp.vote_granted => r.node.voted_for = <<req.candidate_id>>
    /\ ~r.resp.vote_granted => r.node.voted_for = VotedAfterAdopting(n, req)

\* C21: handle_vote_request grants the vote if and only if, after adopting
\* a higher request term, req.term = currentTerm, votedFor is none or the
\* candidate, and the candidate's log is at least as up to date (a greater
\* last term, or the same last term and an index at least the node's); on a
\* grant votedFor becomes the candidate, without a grant votedFor is not set
\* to the candidate.  Stated for every reachable node and every request.
C21_GrantIffConditions ==
    \A req \in VoteRequests : VoteAsStated(node, req, handle_vote_request(node, req))

\* a node with a log of two entries has granted a vote, so the candidate's
\* log had to be compared with it
C21_Witness ==
    /\ resp.kind = "vote"
    /\ resp.vote_granted
    /\ Len(node.log) = 2
    /\ node.voted_for \in {<<"n2">>, <<"n3">>}
    /\ [term |-> node.current_term, candidate |-> node.voted_for[1]] \in grants

\* the outcome r of handle_vote_request for a request of a higher term
HigherTermAdopted(req, r) ==
    /\ r.node.current_term = req.term
    /\ r.node.state # "Leader"
    /\ r.resp.term = r.node.current_term

\* C22: for a vote request with req.term > currentTerm, whatever the role
\* of the node, after the call currentTerm = req.term, the role is not
\* Leader, and the term of the response is the new currentTerm.
C22_HigherTermStepsDown ==
    \A req \in VoteRequests :
        req.term > node.current_term =>
            HigherTermAdopted(req, handle_vote_request(node, req))

\* a node that had become leader has handled a vote request and is a
\* follower in the term of the response
C22_Witness ==
    /\ resp.kind = "vote"
    /\ node.leader_id = <<node.id>>
    /\ node.state = "Follower"
    /\ resp.term = node.current_term

\* C23: handle_append_entries with req.term < currentTerm responds
\* success = false, match_index = 0 and term = currentTerm, and changes no
\* field of the node.  Stated for every reachable node and every request.
C23_StaleAppendRejected ==
    \A req \in AppendRequests :
        req.term < node.current_term =>
            /\ handle_append_entries(node, req, clock).node = node
            /\ handle_append_entries(node, req, clock).resp =
                   [kind |-> "append", term |-> node.current_term, vote_granted |-> FALSE,
                    success |-> FALSE, match_index |-> 0]

\* a leader has rejected an append of an older term and is still leader
C23_Witness ==
    /\ resp.kind = "append"
    /\ ~resp.success
    /\ resp.term = node.current_term
    /\ node.state = "Leader"
    /\ node.last_heartbeat < clock - 1

\* the outcome r of handle_append_entries at time now, on a node with log
\* `log` in a term not above the request's
AppendAccepted(req, log, now, r) ==
    /\ r.node.current_term = req.term
    /\ r.node.state = "Follower"
    /\ r.node.leader_id = <<req.leader_id>>
    /\ r.node.last_heartbeat = now
    /\ r.resp.kind = "append"
    /\ r.resp.success
    /\ r.resp.match_index = LastIndex(log)
    /\ r.resp.term = req.term

\* C24: handle_append_entries with req.term >= currentTerm, in any role,
\* leaves the node with currentTerm = req.term, role Follower, leader id the
\* sender and the heartbeat clock reset, and responds success = true with
\* match_index the node's own last log index and term the adopted term.
C24_AppendAccepted ==
    \A req \in AppendRequests :
        req.term >= node.current_term =>
            AppendAccepted(req, node.log, clock,
                           handle_append_entries(node, req, clock))

\* a node that stood as candidate, with a log of two entries, has accepted
\* an append: it follows the sender and reports its last index
C24_Witness ==
    /\ resp.kind = "append"
    /\ resp.success
    /\ node.voted_for = <<node.id>>
    /\ node.state = "Follower"
    /\ node.leader_id \in {<<"n2">>, <<"n3">>}
    /\ node.last_heartbeat = clock - 1
    /\ resp.match_index = 2

\* the vote the node holds after a step was cast by that step: an election
\* the node started for itself, or a vote it granted
VoteCastByStep ==
    \/ /\ resp' = NoResp
       /\ node'.state = "Candidate"
       /\ node'.voted_for = <<node'.id>>
    \/ /\ resp'.kind = "vote"
       /\ resp'.vote_granted
       /\ resp'.term = node'.current_term

\* C30: votedFor is valid only within currentTerm: whenever currentTerm
\* increases by a transition (start_election, handle_vote_request,
\* handle_append_entries), votedFor is cleared or is the vote cast in the new
\* term, so that a vote of an older term never blocks a vote in a newer one.
C30_VoteOnlyInCurrentTerm ==
    [][node'.current_term > node.current_term
           => (node'.voted_for = <<>> \/ VoteCastByStep)]_vars

\* ------------------------------------------------------------------------
\* Structure of the tree (SpecTree)
\* ------------------------------------------------------------------------

\* the keys stored in the leaves of the subtree under a node
RECURSIVE SubtreeKeys(_, _)
SubtreeKeys(t, id) ==
    IF t.nodes[id].is_leaf
    THEN {t.nodes[id].keys[i] : i \in 1..Len(t.nodes[id].keys)}
    ELSE UNION {SubtreeKeys(t, t.nodes[id].children[i]) :
                    i \in 1..Len(t.nodes[id].children)}

\* the leftmost leaf of the subtree under a node
RECURSIVE LeftmostLeaf(_, _)
LeftmostLeaf(t, id) ==
    IF t.nodes[id].is_leaf THEN id ELSE LeftmostLeaf(t, t.nodes[id].children[1])

\* the internal nodes and the leaves of a tree
Internals(t) == {id \in DOMAIN t.nodes : ~t.nodes[id].is_leaf}
Leaves(t) == {id \in DOMAIN t.nodes : t.nodes[id].is_leaf}

\* key number i of internal node id separates the subtrees of its children
\* number i and i + 1, and is the first key of the leftmost leaf on its right
Separates(t, id, i) ==
    /\ \A k \in SubtreeKeys(t, t.nodes[id].children[i]) : StrLt(k, t.nodes[id].keys[i])
    /\ \A k \in SubtreeKeys(t, t.nodes[id].children[i + 1]) :
           ~StrLt(k, t.nodes[id].keys[i])
    /\ t.nodes[LeftmostLeaf(t, t.nodes[id].children[i + 1])].keys # <<>>
    /\ t.nodes[LeftmostLeaf(t, t.nodes[id].children[i + 1])].keys[1] = t.nodes[id].keys[i]

SeparatorsHold(t) ==
    \A id \in Internals(t) : \A i \in 1..Len(t.nodes[id].keys) :
        /\ i + 1 <= Len(t.nodes[id].children)
        /\ Separates(t, id, i)

\* the descent by key reaches the leaf that stores the key, for every stored
\* key and so for the keys that are separators
DescentFindsStored(t) ==
    \A id \in Leaves(t) : \A i \in 1..Len(t.nodes[id].keys) :
        /\ find_leaf_recursive(t, t.root, t.nodes[id].keys[i]) # None
        /\ t.nodes[id].keys[i] \in
               SubtreeKeys(t, find_leaf_recursive(t, t.root, t.nodes[id].keys[i]))
        /\ get(t, t.nodes[id].keys[i]) # <<>>

\* C25: in every tree reachable by inserts, for every internal node all keys
\* stored under the child left of a separator are smaller than it and all
\* keys under the child right of it are at least it, each separator being
\* the first key of the leftmost leaf of its right subtree; and the descent
\* by key routes a key equal to a separator into the subtree that stores it.
C25_SeparatorsAndRouting ==
    /\ SeparatorsHold(tree)
    /\ DescentFindsStored(tree)

\* the position of child c in the children of node p, 0 when it is none
ChildPos(t, p, c) ==
    IF \E j \in 1..Len(t.nodes[p].children) : t.nodes[p].children[j] = c
    THEN CHOOSE j \in 1..Len(t.nodes[p].children) : t.nodes[p].children[j] = c
    ELSE 0

\* the parent of node c
ParentOf(t, c) == CHOOSE p \in Internals(t) : ChildPos(t, p, c) > 0

\* the internal nodes an insert created as the right half of a split: the
\* new internal nodes but the new root
RightHalves(t, u) == {r \in Internals(u) \ DOMAIN t.nodes : r # u.root}

\* an insert turned tree t into u and made internal node r the right half of
\* a split; x is the node that was split, p their parent, j the position of
\* x in p.  With n the split threshold and m = n / 2: x keeps m keys and
\* m + 1 children, r takes n - m - 1 keys and n - m children, and the key
\* between the two halves in p is the key that stood at index m: the keys of
\* x, that key, and the keys of r are the n keys of the node that was split,
\* in order.
SplitAsStated(t, u, r, p, j) ==
    /\ j > 1
    /\ u.nodes[p].children[j - 1] \in Internals(t)
    /\ Len(u.nodes[u.nodes[p].children[j - 1]].keys) = NODE_SIZE \div 2
    /\ Len(u.nodes[u.nodes[p].children[j - 1]].children) = NODE_SIZE \div 2 + 1
    /\ Len(u.nodes[r].keys) = NODE_SIZE - NODE_SIZE \div 2 - 1
    /\ Len(u.nodes[r].children) = NODE_SIZE - NODE_SIZE \div 2
    /\ StrictlySorted(u.nodes[u.nodes[p].children[j - 1]].keys
                          \o <<u.nodes[p].keys[j - 1]>> \o u.nodes[r].keys)
    /\ \A i \in 1..Len(t.nodes[u.nodes[p].children[j - 1]].keys) :
           t.nodes[u.nodes[p].children[j - 1]].keys[i] \in
               {u.nodes[u.nodes[p].children[j - 1]].keys[q] :
                    q \in 1..Len(u.nodes[u.nodes[p].children[j - 1]].keys)}
               \cup {u.nodes[p].keys[j - 1]}
               \cup {u.nodes[r].keys[q] : q \in 1..Len(u.nodes[r].keys)}

\* C26: when an internal node with n keys splits (m = n / 2), the new right
\* node takes keys [m+1, n) and children [m+1, n+1), the old node keeps keys
\* [0, m) and children [0, m+1), and the key that was at index m is the
\* separator between the two halves in the parent (the sole key of a new
\* root when the root was split).
C26_InternalSplit ==
    [][\A r \in RightHalves(tree, tree') :
           SplitAsStated(tree, tree', r, ParentOf(tree', r),
                         ChildPos(tree', ParentOf(tree', r), r))]_vars

\* the leaves of the chain that starts at leaf id, following next_leaf for
\* at most n steps
RECURSIVE ChainIds(_, _, _)
ChainIds(t, id, n) ==
    IF id = None \/ n = 0 THEN <<>>
    ELSE <<id>> \o ChainIds(t, t.nodes[id].next_leaf, n - 1)

\* the chain of all leaves of a tree, from the leaf head
LeafChain(t) == ChainIds(t, t.leaf_head, Cardinality(DOMAIN t.nodes))

\* every key of the leaf at position i of a chain is smaller than every key
\* of the leaves after it
ChainAscending(t, chain) ==
    \A i, j \in 1..Len(chain) :
        i < j => \A a \in 1..Len(t.nodes[chain[i]].keys),
                    b \in 1..Len(t.nodes[chain[j]].keys) :
                     StrLt(t.nodes[chain[i]].keys[a], t.nodes[chain[j]].keys[b])

\* next_leaf and prev_leaf mirror each other, the head has no predecessor,
\* and the chain from the head holds every leaf
ChainLinked(t) ==
    /\ \A a \in Leaves(t) :
           t.nodes[a].next_leaf # None =>
               /\ t.nodes[a].next_leaf \in Leaves(t)
               /\ t.nodes[t.nodes[a].next_leaf].prev_leaf = a
    /\ t.leaf_head # None => t.nodes[t.leaf_head].prev_leaf = None
    /\ {LeafChain(t)[i] : i \in 1..Len(LeafChain(t))} = Leaves(t)

\* C27: in every tree reachable by inserts the leaves form a doubly linked
\* list from the leaf head: A.next = B implies B.prev = A, the head has no
\* predecessor, every leaf is on the chain, and every key of a leaf is
\* smaller than every key of the leaves after it.
C27_LeafChain ==
    /\ ChainLinked(tree)
    /\ ChainAscending(tree, LeafChain(tree))


\* the number of keys stored in the leaves of a tree
RECURSIVE SumLeafKeys(_, _)
SumLeafKeys(t, ids) ==
    IF ids = {} THEN 0
    ELSE LET id == CHOOSE x \in ids : TRUE
         IN  Len(t.nodes[id].keys) + SumLeafKeys(t, ids \ {id})

StoredCount(t) == SumLeafKeys(t, Leaves(t))

\* the keys stored in some leaf of a tree
StoredKeys(t) ==
    UNION {{t.nodes[id].keys[i] : i \in 1..Len(t.nodes[id].keys)} : id \in Leaves(t)}

\* tree u is tree t with the value of key k overwritten by v in the leaf
\* that holds k, and nothing else changed but the operation count
OverwrittenInPlace(t, k, v, u) ==
    /\ u.root = t.root
    /\ u.leaf_head = t.leaf_head
    /\ u.next_node_id = t.next_node_id
    /\ DOMAIN u.nodes = DOMAIN t.nodes
    /\ StoredCount(u) = StoredCount(t)
    /\ \A id \in DOMAIN t.nodes :
           /\ u.nodes[id].keys = t.nodes[id].keys
           /\ u.nodes[id].children = t.nodes[id].children
           /\ u.nodes[id].is_leaf = t.nodes[id].is_leaf
           /\ u.nodes[id].next_leaf = t.nodes[id].next_leaf
           /\ u.nodes[id].prev_leaf = t.nodes[id].prev_leaf
           /\ Len(u.nodes[id].values) = Len(t.nodes[id].values)
           /\ \A i \in 1..Len(t.nodes[id].values) :
                  u.nodes[id].values[i] =
                      IF t.nodes[id].keys[i] = k THEN v ELSE t.nodes[id].values[i]

\* C28: insert is an upsert: inserting a key that is stored in the tree
\* overwrites its value in place and leaves the number of stored keys and the
\* structure of the tree unchanged, for every stored key and every reachable
\* tree; the keys of every node are strictly ascending.
C28_InsertIsUpsert ==
    /\ \A id \in DOMAIN tree.nodes : StrictlySorted(tree.nodes[id].keys)
    /\ \A k \in StoredKeys(tree), v \in TreeVals :
           /\ ~insert(tree, k, v).err
           /\ OverwrittenInPlace(tree, k, v, insert(tree, k, v).t)


\* ------------------------------------------------------------------------
\* Startup with a snapshot (Spec)
\* ------------------------------------------------------------------------

\* record number i is the last Insert record of its key among ops
LastInsertOfKey(ops, i) ==
    /\ ops[i].tag = 1
    /\ \A j \in DOMAIN ops : j > i => ~(ops[j].tag = 1 /\ ops[j].key = ops[i].key)

\* C29: after Database::new on a directory the index that serves queries
\* holds, for every key that has an Insert record in the WAL, the row of the
\* last such record, whether or not a snapshot file is present and whatever
\* it holds: loading the snapshot discards nothing the replay has rebuilt.
C29_ReplayOutlivesSnapshot ==
    [][DbStart /\ db'.up =>
           \A i \in DOMAIN CompleteOps(dwal.data, 1) :
               LastInsertOfKey(CompleteOps(dwal.data, 1), i) =>
                   <<CompleteOps(dwal.data, 1)[i].key,
                     serialize_row(CompleteOps(dwal.data, 1)[i].row)>>
                       \in IndexPairs(db'.engine.storage)]_vars


\* C31: the current term of a node never decreases: across any sequence of
\* start_election, become_leader, handle_vote_request and
\* handle_append_entries calls with arbitrary request terms every step leaves
\* current_term greater than or equal to its previous value.
C31_TermNeverDecreases ==
    [][node'.current_term >= node.current_term]_vars


\* start_election has just returned n from node m at time now, as stated
ElectionStarted(m, now, n) ==
    /\ n.current_term = m.current_term + 1
    /\ n.state = "Candidate"
    /\ n.voted_for = <<m.id>>
    /\ n.last_heartbeat = now
    /\ n.log = m.log
    /\ n.commit_index = m.commit_index
    /\ n.last_applied = m.last_applied
    /\ n.leader_id = m.leader_id
    /\ n.next_index = m.next_index
    /\ n.match_index = m.match_index
    /\ n.id = m.id
    /\ n.peers = m.peers

\* C32: start_election, from any role, increases current_term by exactly 1,
\* sets the role to Candidate and voted_for to the node's own id and resets
\* the heartbeat clock; the log, the commit index, the leader id and the peer
\* index maps stay as they were.
C32_StartElection ==
    [][(\E checks \in BOOLEAN : RaftStartElection(checks)) /\ resp'.kind # "panic"
           => ElectionStarted(node, clock, node')]_vars


\* the outcome r of handle_vote_request on node n: a request of a lower
\* term is refused with the node's term and changes nothing; no request
\* changes the log, the commit index or the leader id
VoteFrame(n, req, r) ==
    /\ req.term < n.current_term =>
           /\ ~r.resp.vote_granted
           /\ r.resp.term = n.current_term
           /\ r.node = n
    /\ r.node.log = n.log
    /\ r.node.commit_index = n.commit_index
    /\ r.node.leader_id = n.leader_id

\* C38: handle_vote_request with req.term < currentTerm never grants the
\* vote, responds with term = currentTerm and changes no field of the node;
\* a vote request of any term never changes the log, the commit index or the
\* leader id of the node.
C38_StaleVoteRefused ==
    \A req \in VoteRequests : VoteFrame(node, req, handle_vote_request(node, req))

\* a node with a free vote and an empty log, led by n2, has refused a vote:
\* the request was of a lower term, any other would have been granted
C38_Witness ==
    /\ resp.kind = "vote"
    /\ ~resp.vote_granted
    /\ resp.term = node.current_term
    /\ node.voted_for = <<>>
    /\ node.log = <<>>
    /\ node.leader_id = <<"n2">>

\* the outcome r of handle_append_entries on node n
AppendFrame(n, req, r) ==
    /\ r.node.log = n.log
    /\ r.node.commit_index = n.commit_index
    /\ r.node.last_applied = n.last_applied
    /\ r.node.voted_for = n.voted_for
    /\ req.term >= n.current_term => r.resp.match_index = LastIndex(n.log)

\* C39: handle_append_entries never changes the log, commit_index,
\* last_applied or voted_for of the node, whatever entries and leader_commit
\* the request carries: an accepted request with entries leaves the log as it
\* was, and the match_index of the response is the unchanged last log index.
C39_AppendStoresNothing ==
    \A req \in AppendRequests :
        AppendFrame(node, req, handle_append_entries(node, req, clock))

\* a node with an empty log has accepted a request (the requests carry up to
\* one entry and a commit index up to 1) and reports match_index 0
C39_Witness ==
    /\ resp.kind = "append"
    /\ resp.success
    /\ resp.match_index = 0
    /\ node.log = <<>>
    /\ node.commit_index = 0
    /\ node.last_applied = 0
    /\ node.last_heartbeat = clock - 1


\* ------------------------------------------------------------------------
\* Truncation and the mirror (SpecWal)
\* ------------------------------------------------------------------------

\* the entries a replay of a file by a handle returns
Replayed(h, file) ==
    {replay(h, file).entries[i] : i \in 1..Len(replay(h, file).entries)}

RECURSIVE CompleteEntries(_, _)
CompleteEntries(data, p) ==
    IF ~EntryAt(data, p).ok THEN <<>>
    ELSE <<EntryAt(data, p).val>>
             \o CompleteEntries(data, p + 4 + from_le_bytes(SubSeq(data, p, p + 3)))

\* the mirror of the handle is the sequence of records of the file
MirrorIsFile(h, file) == h.entries = CompleteEntries(file.data, 1)

\* an append of this step has failed
AppendFailed == wnext' = wnext + 1 /\ wlog' = wlog

\* C35: after any sequence of append, sync, checkpoint and truncate calls on
\* a handle the mirror (get_entries) is the sequence of records stored in the
\* file, in order; a failed append adds nothing to the mirror, and sync and
\* checkpoint change neither the content of the file nor the mirror.
C35_MirrorEqualsFile ==
    [][/\ MirrorIsFile(wal', wfile')
       /\ AppendFailed => wal' = wal
       /\ WalSync \/ WalCheckpoint => wfile'.data = wfile.data /\ wal' = wal]_vars


\* ------------------------------------------------------------------------
\* INSERT of a stored primary key (Spec)
\* ------------------------------------------------------------------------

\* row number i of the inserted rows is the latest of its primary key
LatestOfKey(rows, i) == \A j \in DOMAIN rows : j > i => rows[j][1] # rows[i][1]

\* the line of SELECT * for a row (id, n)
LineOf(row) == IntToString(row[1]) \o TxtTab \o row[2] \o TxtNewline

\* the output of SELECT * holds one line per primary key of the inserted
\* rows, the line of the latest row of the key, and counts as many rows
OneRowPerKey(text, rows) ==
    /\ \A i \in DOMAIN rows :
           IF LatestOfKey(rows, i) THEN Contains(text, LineOf(rows[i]))
           ELSE \/ \E j \in DOMAIN rows : LatestOfKey(rows, j) /\ rows[j] = rows[i]
                \/ ~Contains(text, LineOf(rows[i]))
    /\ EndsWith(text, TxtParen
                          \o IntToString(Cardinality({rows[i][1] : i \in DOMAIN rows}))
                          \o TxtRowsFooter \o TxtNewline)

\* C34: an INSERT whose primary-key value is that of a stored row of the
\* table replaces the row: after any sequence of successful INSERTs SELECT *
\* returns exactly one row per distinct primary-key value, with the values
\* of the latest INSERT of the key, however many rows the table holds.
C34_InsertReplacesRow ==
    (/\ db.up
     /\ starts = 1
     /\ last.kind = "select"
     /\ TableT \in DOMAIN db.engine.schemas
     /\ ~inserts.other) =>
        /\ last.ok
        /\ OneRowPerKey(last.text, inserts.rows)


\* ------------------------------------------------------------------------
\* Shape of the nodes (SpecTree)
\* ------------------------------------------------------------------------

\* the depths at which the leaves of the subtree under node id lie, the node
\* itself at depth d
RECURSIVE LeafDepths(_, _, _)
LeafDepths(t, id, d) ==
    IF t.nodes[id].is_leaf THEN {d}
    ELSE UNION {LeafDepths(t, t.nodes[id].children[i], d + 1) :
                    i \in 1..Len(t.nodes[id].children)}

NodeShaped(t, id) ==
    /\ Len(t.nodes[id].keys) < NODE_SIZE
    /\ IF t.nodes[id].is_leaf
       THEN Len(t.nodes[id].values) = Len(t.nodes[id].keys)
       ELSE /\ Len(t.nodes[id].children) = Len(t.nodes[id].keys) + 1
            /\ Len(t.nodes[id].keys) >= 1
            /\ \A i \in 1..Len(t.nodes[id].children) :
                   t.nodes[id].children[i] \in DOMAIN t.nodes

\* C36: in every tree reachable by inserts every internal node has one more
\* child than keys and at least one key, every leaf has as many values as
\* keys, every child id is a node of the arena, all leaves are at the same
\* depth, and no node holds as many keys as the split threshold.
C36_NodesShaped ==
    /\ \A id \in DOMAIN tree.nodes : NodeShaped(tree, id)
    /\ tree.root # None => Cardinality(LeafDepths(tree, tree.root, 0)) = 1

\* a tree of three levels: the root and one of its children are internal
C36_Witness ==
    /\ tree.root # None
    /\ ~tree.nodes[tree.root].is_leaf
    /\ \E i \in 1..Len(tree.nodes[tree.root].children) :
           ~tree.nodes[tree.nodes[tree.root].children[i]].is_leaf
    /\ Len(tree.nodes[tree.root].keys) = 2
    /\ LeafDepths(tree, tree.root, 0) = {2}


\* ------------------------------------------------------------------------
\* The line protocol (SpecLine)
\* ------------------------------------------------------------------------

\* the responses written and not yet read are in request order
InRequestOrder(w) == \A i, j \in DOMAIN w : i < j /\ w[j].of # 0 => w[i].of <= w[j].of

\* C37: the client and the server stay in step for any stored data: the
\* lines the client consumes for a request, up to its next prompt, are
\* exactly the lines of that request's response (the first line that starts
\* with Query OK or Error is the last line of the response), also when a
\* SELECT returns rows whose first column starts with Error or Query OK;
\* responses are emitted in request order.
C37_ProtocolInStep ==
    [][/\ CliRead =>
              /\ Head(wire).of = cli.req
              /\ cli'.pc = "prompt" => \A i \in DOMAIN wire' : wire'[i].of # cli.req
       /\ InRequestOrder(wire')]_vars
====
